---- MODULE Spec2Model ----
(***************************************************************************)
(* Verification model of the word_core crate: the hint derivation, the     *)
(* clue -> query compiler, the columnar word table, the hint matrix        *)
(* precomputation and the branch-and-bound decision tree solver.           *)
(*                                                                         *)
(* Indices follow the Rust source (0-based) wherever they are stored in a  *)
(* value (Query.ind, answer / guess indices, hint ids); TLA+ sequences are *)
(* 1-based, so element `i` of a Rust vector v is v[i + 1] here.            *)
(***************************************************************************)
EXTENDS Integers, Sequences, FiniteSets, TLC

VARIABLES
    pc,                 \* position of the driver that is running
    words,              \* SearchableWords.words of the table under test
    columns,            \* SearchableWords.columns of the table under test
    guess,              \* the guess word of the current trial
    answer,             \* the answer word of the current trial
    word_hint,          \* WordHint computed for (guess, answer)
    query,              \* Query compiled from (guess, word_hint)
    smart,              \* filter_words(eval_query(query))
    dumb,               \* dumb_search_words(words, guess, word_hint)
    allowed_guesses,    \* the guess word list
    possible_answers,   \* the answer word list
    all_hints,          \* the hint matrix: one row of hint ids per guess
    hints_for_guess,    \* the row being filled for the current guess
    guess_ind,          \* index of the current guess in allowed_guesses
    hint_ind,           \* index of the next hint of WordHint::all_possible()
    written,            \* how often each entry of the current row was written
    max_depth,          \* max_depth of the running solver call
    printer,            \* the Option<&impl DebugPrinter> handed to the solver
    stack,              \* frames of the running solver calls, innermost last
    ret,                \* the solver call that returned in the last step
    prev,               \* what an earlier root call on the same input returned
    filter_mask,        \* the row mask handed to SearchableWords::filter
    selected,           \* eval_query(query) of the table under test
    filtered,           \* the table that filter(mask) returns
    filtered_selected,  \* eval_query(query) of the filtered table
    column,             \* the Column under test
    other,              \* the second Column, the right-hand side of &= and |=
    source_bools,       \* the &[bool] the last from_bools was called with
    last_op,            \* the last method called on the Column under test
    column_before,      \* the Column under test before that call (as made, if made by it)
    outcome,            \* whether that call returned or panicked
    steps,              \* number of method calls made so far
    raw,                \* the bytes of the &str handed to Word::from_str
    overflow_checks,    \* whether the build panics on integer overflow
    parsed,             \* what Word::from_str returned, or that it panicked
    node_guesses,       \* allowed_guesses of the compute_node_aggressive call
    node_depth,         \* depth of that call
    node_max_depth,     \* max_depth of that call
    node_result         \* the Option that call returned

tablevars == <<words, columns>>
qvars == <<guess, answer, word_hint, query, smart, dumb>>
mvars == <<allowed_guesses, possible_answers, all_hints, hints_for_guess,
           guess_ind, hint_ind, written>>
tvars == <<max_depth, printer, stack, ret, prev>>
svars == <<filter_mask, selected, filtered, filtered_selected>>
cvars == <<column, other, source_bools, last_op, column_before, outcome, steps>>
\* the variables of the specifications of the single units
wvars == <<raw, overflow_checks, parsed>>
avars == <<node_guesses, node_depth, node_max_depth, node_result>>
xvars == <<cvars, wvars, avars>>
vars == <<pc, tablevars, qvars, mvars, tvars, svars, xvars>>

----------------------------------------------------------------------------
(* Bounds of the model.                                                    *)

\* const generic WORD_SIZE of Word / WordHint / SearchableWords
WORD_SIZE == 3
\* const generic ALPHABET_SIZE of Word / SearchableWords
ALPHABET_SIZE == 4

\* length of the longest word list loaded into a table
MaxTable == 27

\* length of the longest guess list the hint matrix is precomputed for
MaxGuessList == 2

\* number of bits of one storage word of a Column (u64)
CHUNK_BITS == 64

None == "None"

----------------------------------------------------------------------------
(* Small helpers.                                                          *)

Min(a, b) == IF a <= b THEN a ELSE b

RECURSIVE Pow(_, _)
Pow(b, e) == IF e = 0 THEN 1 ELSE b * Pow(b, e - 1)

\* The elements of a finite set of integers as an ascending sequence.
RECURSIVE Ascending(_)
Ascending(S) ==
    IF S = {} THEN <<>>
    ELSE LET m == CHOOSE x \in S : \A y \in S : x <= y
         IN  <<m>> \o Ascending(S \ {m})

\* The elements of a finite set of integers within lo..hi as an ascending
\* sequence, by halving the interval.
RECURSIVE AscendingIn(_, _, _)
AscendingIn(S, lo, hi) ==
    IF S = {} THEN <<>>
    ELSE IF lo >= hi THEN <<lo>>
    ELSE LET mid == (lo + hi) \div 2
         IN  AscendingIn({x \in S : x <= mid}, lo, mid)
                 \o AscendingIn({x \in S : x > mid}, mid + 1, hi)

Range(s) == {s[i] : i \in DOMAIN s}

\* All enumerations (iteration orders) of a finite set.
Orders(S) ==
    {s \in [1..Cardinality(S) -> S] : \A i, j \in DOMAIN s : i # j => s[i] # s[j]}

----------------------------------------------------------------------------
(* word.rs                                                                 *)

Chars == 0..(ALPHABET_SIZE - 1)
Word == [1..WORD_SIZE -> Chars]

\* Word::count_chr
count_chr(word, chr) == Cardinality({i \in 1..WORD_SIZE : word[i] = chr})

\* u8::to_ascii_uppercase
to_ascii_uppercase(byte) == IF byte \in 97..122 THEN byte - 32 ELSE byte

\* `byte.to_ascii_uppercase() - 65` on u8: below 65 the subtraction
\* overflows, which panics in a build with overflow checks and wraps in one
\* without
letter_value(byte) == (to_ascii_uppercase(byte) - 65) % 256
letter_overflows(byte) == to_ascii_uppercase(byte) < 65

\* Word::from_str: `assert!(value < 26)`
value_accepted(value) == value < 26

\* Word::from_str: <<word>> when it returns, <<>> when it panics
from_str(bytes, checks) ==
    IF Len(bytes) # WORD_SIZE THEN <<>>
    ELSE IF \E ind \in 1..WORD_SIZE :
                \/ checks /\ letter_overflows(bytes[ind])
                \/ ~value_accepted(letter_value(bytes[ind]))
         THEN <<>>
         ELSE <<[ind \in 1..WORD_SIZE |-> letter_value(bytes[ind])]>>

\* every word of [0, A)^W in lexicographic order (a word list file)
WordOf(k) == [i \in 1..WORD_SIZE |-> (k \div Pow(ALPHABET_SIZE, WORD_SIZE - i)) % ALPHABET_SIZE]
AllWords == [k \in 1..Pow(ALPHABET_SIZE, WORD_SIZE) |-> WordOf(k - 1)]

----------------------------------------------------------------------------
(* hint.rs                                                                 *)

Correct == "Correct"
Elsewhere == "Elsewhere"
Nowhere == "Nowhere"
CharHint == {Correct, Elsewhere, Nowhere}
WordHint == [1..WORD_SIZE -> CharHint]

\* variant of missed_answer_char_counts that also counts the answer
\* characters the guess matched in place
answer_char_counts(g, a) ==
    [c \in {a[i] : i \in 1..WORD_SIZE} |->
        Cardinality({i \in 1..WORD_SIZE : a[i] = c})]

\* first loop of from_guess_and_answer: how many of each character of the
\* answer the guess missed
missed_answer_char_counts(g, a) ==
    [c \in {a[i] : i \in {j \in 1..WORD_SIZE : a[j] # g[j]}} |->
        Cardinality({i \in 1..WORD_SIZE : a[i] # g[i] /\ a[i] = c})]

\* first loop of from_guess_and_answer: for each missed character of the
\* guess the (0-based) indices holding it, in ascending order
incorrect_guess_char_inds(g, a) ==
    [c \in {g[i] : i \in {j \in 1..WORD_SIZE : a[j] # g[j]}} |->
        Ascending({i - 1 : i \in {j \in 1..WORD_SIZE : a[j] # g[j] /\ g[j] = c}})]

\* variant of from_guess_and_answer that sets the last N indices of a
\* missed character to Elsewhere instead of the first N
from_guess_and_answer_last_shown(g, a) ==
    LET missed == missed_answer_char_counts(g, a)
        inds   == incorrect_guess_char_inds(g, a)
        shown(c) == Min(missed[c], Len(inds[c]))
    IN  [i \in 1..WORD_SIZE |->
            IF a[i] = g[i] THEN Correct
            ELSE IF \E c \in (DOMAIN missed) \cap (DOMAIN inds) :
                        \E k \in 1..shown(c) : inds[c][Len(inds[c]) - k + 1] = i - 1
                 THEN Elsewhere
                 ELSE Nowhere]

\* WordHint::from_guess_and_answer.  The second loop iterates a HashMap; each
\* entry writes only the indices of its own character, so the iteration
\* order does not show in the result.
from_guess_and_answer(g, a) ==
    LET missed == missed_answer_char_counts(g, a)
        inds   == incorrect_guess_char_inds(g, a)
        shown(c) == Min(missed[c], Len(inds[c]))
    IN  [i \in 1..WORD_SIZE |->
            IF a[i] = g[i] THEN Correct
            ELSE IF \E c \in (DOMAIN missed) \cap (DOMAIN inds) :
                        \E k \in 1..shown(c) : inds[c][k] = i - 1
                 THEN Elsewhere
                 ELSE Nowhere]

\* a character of the guess that is Elsewhere at one index and Nowhere at a
\* later one
SplitChar(g, h) ==
    \E i, j \in 1..WORD_SIZE :
        i < j /\ g[i] = g[j] /\ h[i] = Elsewhere /\ h[j] = Nowhere

\* WordHint::all_possible: entry `ind` (0-based) of the returned vector
all_possible_at(ind) ==
    [digit \in 1..WORD_SIZE |->
        LET d == (ind \div Pow(3, digit - 1)) % 3
        IN  IF d = 0 THEN Correct ELSE IF d = 1 THEN Elsewhere ELSE Nowhere]

all_possible == [k \in 1..Pow(3, WORD_SIZE) |-> all_possible_at(k - 1)]

\* WordHint::all_correct
all_correct(h) == \A i \in 1..WORD_SIZE : h[i] = Correct

\* WordHint::hint_id: base-3 little-endian, digit 0 = Correct,
\* 1 = Elsewhere (Misplaced), 2 = Nowhere (Absent)
hint_digit(char_hint) ==
    IF char_hint = Correct THEN 0 ELSE IF char_hint = Elsewhere THEN 1 ELSE 2

RECURSIVE hint_id_from(_, _)
hint_id_from(h, i) ==
    IF i > WORD_SIZE THEN 0
    ELSE hint_digit(h[i]) * Pow(3, i - 1) + hint_id_from(h, i + 1)

hint_id(h) == hint_id_from(h, 1)

----------------------------------------------------------------------------
(* column.rs                                                               *)
(*                                                                         *)
(* A Column is (len, col); each u64 of col is modelled as the set of its   *)
(* bit positions that are 1, so the bits past len in the last chunk are    *)
(* part of the value exactly as in the source.                             *)

Bits == 0..(CHUNK_BITS - 1)
num_chunks(len) == (len + CHUNK_BITS - 1) \div CHUNK_BITS

\* Column::from_true: every chunk is u64::MAX
from_true(len) ==
    [len |-> len, col |-> [k \in 1..num_chunks(len) |-> Bits]]

\* Column::from_false
from_false(len) ==
    [len |-> len, col |-> [k \in 1..num_chunks(len) |-> {}]]

\* variant of from_bools that packs the first chunk only
from_bools_first_chunk_only(bools) ==
    [len |-> Len(bools),
     col |-> [k \in 1..num_chunks(Len(bools)) |->
                {b \in Bits : /\ k = 1
                              /\ b < Len(bools)
                              /\ bools[b + 1]}]]

\* Column::from_bools: the bits past the end of the last chunk stay 0
from_bools(bools) ==
    [len |-> Len(bools),
     col |-> [k \in 1..num_chunks(Len(bools)) |->
                {b \in Bits : /\ (k - 1) * CHUNK_BITS + b < Len(bools)
                              /\ bools[(k - 1) * CHUNK_BITS + b + 1]}]]

\* variant of one_hot_values that sets every column up to the value
one_hot_values_up_to(values, max_val) ==
    [v \in 1..max_val |->
        [len |-> Len(values),
         col |-> [k \in 1..num_chunks(Len(values)) |->
                    {b \in Bits : /\ (k - 1) * CHUNK_BITS + b < Len(values)
                                  /\ values[(k - 1) * CHUNK_BITS + b + 1] >= v - 1}]]]

\* Column::one_hot_values: column `v` (0-based) of the returned vector, i.e.
\* from_false(len) with set(i, true) for every i whose value is v
one_hot_values(values, max_val) ==
    [v \in 1..max_val |->
        [len |-> Len(values),
         col |-> [k \in 1..num_chunks(Len(values)) |->
                    {b \in Bits : /\ (k - 1) * CHUNK_BITS + b < Len(values)
                                  /\ values[(k - 1) * CHUNK_BITS + b + 1] = v - 1}]]]

\* Column::to_bools
to_bools(c) ==
    [i \in 1..c.len |-> ((i - 1) % CHUNK_BITS) \in c.col[((i - 1) \div CHUNK_BITS) + 1]]

\* Column::true_inds: the set indices below len, ascending (a chunk that is
\* all zero is skipped, which changes nothing)
true_inds(c) ==
    AscendingIn({i \in 0..(c.len - 1) :
                    (i % CHUNK_BITS) \in c.col[(i \div CHUNK_BITS) + 1]},
                0, c.len - 1)

\* impl BitAndAssign for Column (equal lengths; otherwise panics)
bitand_assign(lhs, rhs) ==
    [len |-> lhs.len,
     col |-> [k \in 1..Len(lhs.col) |-> lhs.col[k] \cap rhs.col[k]]]

\* variant of BitOrAssign that combines the chunks with &
bitor_assign_with_and(lhs, rhs) ==
    [len |-> lhs.len,
     col |-> [k \in 1..Len(lhs.col) |-> lhs.col[k] \cap rhs.col[k]]]

\* impl BitOrAssign for Column (equal lengths; otherwise panics)
bitor_assign(lhs, rhs) ==
    [len |-> lhs.len,
     col |-> [k \in 1..Len(lhs.col) |-> lhs.col[k] \cup rhs.col[k]]]

\* impl Not for Column: every bit of every chunk is flipped
not(c) ==
    [len |-> c.len,
     col |-> [k \in 1..Len(c.col) |-> Bits \ c.col[k]]]

\* Column::get (ind < len; otherwise panics)
get(c, ind) == (ind % CHUNK_BITS) \in c.col[(ind \div CHUNK_BITS) + 1]

\* variant of Column::filter that reads the old column at the new index
Column_filter_new_ind(c, inds) ==
    [len |-> Len(inds),
     col |-> [k \in 1..num_chunks(Len(inds)) |->
                {b \in Bits : /\ (k - 1) * CHUNK_BITS + b < Len(inds)
                              /\ get(c, (k - 1) * CHUNK_BITS + b)}]]

\* Column::filter: from_false(inds.len()) with set(new_ind, true) for every
\* new_ind whose old_ind holds true
Column_filter(c, inds) ==
    [len |-> Len(inds),
     col |-> [k \in 1..num_chunks(Len(inds)) |->
                {b \in Bits : /\ (k - 1) * CHUNK_BITS + b < Len(inds)
                              /\ get(c, inds[(k - 1) * CHUNK_BITS + b + 1])}]]

\* whether an index is checked as past the end only when it is past the
\* allocated storage words
ind_past_storage(c, ind) == ind >= CHUNK_BITS * Len(c.col)

\* Column::get / Column::set: `if ind >= self.len { panic!(..) }`
ind_out_of_range(c, ind) == ind >= c.len

\* Column::set (ind < len; otherwise panics)
set(c, ind, val) ==
    [len |-> c.len,
     col |-> [k \in 1..Len(c.col) |->
                IF k = (ind \div CHUNK_BITS) + 1
                THEN IF val THEN c.col[k] \cup {ind % CHUNK_BITS}
                            ELSE c.col[k] \ {ind % CHUNK_BITS}
                ELSE c.col[k]]]

\* u64::count_ones
count_ones(chunk) == Cardinality(chunk)

\* first_n_bits: a u64 with the first n bits set to 1
first_n_bits(n) == IF n >= CHUNK_BITS THEN Bits ELSE 0..(n - 1)

\* Column::by_chunk_fill: the full chunks and, as an Option, the non-full
\* end chunk
by_chunk_fill(c) ==
    IF c.len % CHUNK_BITS = 0
    THEN [full_chunks |-> c.col, partial_chunk |-> <<>>]
    ELSE [full_chunks |-> SubSeq(c.col, 1, Len(c.col) - 1),
          partial_chunk |-> <<c.col[Len(c.col)]>>]

RECURSIVE sum_count_ones(_)
sum_count_ones(chunks) ==
    IF chunks = <<>> THEN 0
    ELSE count_ones(chunks[1]) + sum_count_ones(Tail(chunks))

\* variant of count_true that counts every bit of the end chunk
count_true_unmasked(c) == sum_count_ones(c.col)

\* Column::count_true
count_true(c) ==
    LET filled == by_chunk_fill(c)
    IN  sum_count_ones(filled.full_chunks)
            + (IF filled.partial_chunk = <<>> THEN 0
               ELSE count_ones(first_n_bits(c.len % CHUNK_BITS)
                                   \cap filled.partial_chunk[1]))

\* Column::count_false
count_false(c) == c.len - count_true(c)

\* the order of two u64: the highest bit in which they differ is set in
\* the larger one
u64_lt(x, y) ==
    \E b \in y \ x : \A b2 \in Bits : b2 > b => (b2 \in x <=> b2 \in y)

\* derive(PartialEq) of Column: len and col are compared
Column_eq(c, d) == c.len = d.len /\ c.col = d.col

\* derive(PartialOrd, Ord) of Column: len first, then col as Vec<u64>
\* (element by element, a proper prefix being the smaller one)
Column_lt(c, d) ==
    \/ c.len < d.len
    \/ /\ c.len = d.len
       /\ \/ \E k \in 1..Min(Len(c.col), Len(d.col)) :
                 /\ \A j \in 1..(k - 1) : c.col[j] = d.col[j]
                 /\ u64_lt(c.col[k], d.col[k])
          \/ /\ Len(c.col) < Len(d.col)
             /\ \A j \in 1..Len(c.col) : c.col[j] = d.col[j]

----------------------------------------------------------------------------
(* word_search.rs                                                          *)

Match(ind, chr) == [type |-> "Match", ind |-> ind, chr |-> chr]
CountExact(count, chr) == [type |-> "CountExact", count |-> count, chr |-> chr]
CountAtLeast(count, chr) == [type |-> "CountAtLeast", count |-> count, chr |-> chr]
Not(q) == [type |-> "Not", q |-> q]
And(qs) == [type |-> "And", qs |-> qs]
Or(qs) == [type |-> "Or", qs |-> qs]

\* variant of build_column whose count-at-least columns start at the
\* threshold 2
build_column_from_threshold_2(ws, k) ==
    LET chr == k \div (3 * WORD_SIZE)
        off == k % (3 * WORD_SIZE)
        counts == [i \in 1..Len(ws) |-> count_chr(ws[i], chr)]
    IN  IF off < WORD_SIZE
        THEN from_bools([i \in 1..Len(ws) |-> ws[i][off + 1] = chr])
        ELSE IF off < 2 * WORD_SIZE + 1
        THEN one_hot_values(counts, WORD_SIZE + 1)[off - WORD_SIZE + 1]
        ELSE from_bools([i \in 1..Len(ws) |-> counts[i] >= off - 2 * WORD_SIZE + 1])

\* SearchableWords::build: column `k` (0-based) in push order.  Each
\* character owns a block of 3 * WORD_SIZE columns: WORD_SIZE match columns,
\* WORD_SIZE + 1 exact-count columns and the at-least columns of the
\* thresholds 1 .. WORD_SIZE - 1.
build_column(ws, k) ==
    LET chr == k \div (3 * WORD_SIZE)
        off == k % (3 * WORD_SIZE)
        counts == [i \in 1..Len(ws) |-> count_chr(ws[i], chr)]
    IN  IF off < WORD_SIZE
        THEN from_bools([i \in 1..Len(ws) |-> ws[i][off + 1] = chr])
        ELSE IF off < 2 * WORD_SIZE + 1
        THEN one_hot_values(counts, WORD_SIZE + 1)[off - WORD_SIZE + 1]
        ELSE from_bools([i \in 1..Len(ws) |-> counts[i] >= off - 2 * WORD_SIZE])

build(ws) ==
    [words |-> ws,
     columns |-> [k \in 1..(ALPHABET_SIZE * WORD_SIZE * 3) |-> build_column(ws, k - 1)]]

\* SearchableWords::eval_query
RECURSIVE eval_query(_, _)
eval_query(t, q) ==
    IF q.type = "Match"
    THEN t.columns[(WORD_SIZE * 3) * q.chr + 0 + q.ind + 1]
    ELSE IF q.type = "CountExact"
    THEN t.columns[(WORD_SIZE * 3) * q.chr + WORD_SIZE + q.count + 1]
    ELSE IF q.type = "CountAtLeast"
    THEN IF q.count = 0 THEN from_true(Len(t.words))
         ELSE IF q.count = WORD_SIZE THEN eval_query(t, CountExact(q.count, q.chr))
         ELSE t.columns[(WORD_SIZE * 3) * q.chr + WORD_SIZE * 2 + 1 + q.count - 1 + 1]
    ELSE IF q.type = "Not"
    THEN not(eval_query(t, q.q))
    ELSE IF q.type = "And"
    THEN LET RECURSIVE fold(_, _)
             fold(acc, i) ==
                 IF i > Len(q.qs) THEN acc
                 ELSE fold(bitand_assign(acc, eval_query(t, q.qs[i])), i + 1)
         IN  fold(from_true(Len(t.words)), 1)
    ELSE LET RECURSIVE fold(_, _)
             fold(acc, i) ==
                 IF i > Len(q.qs) THEN acc
                 ELSE fold(bitor_assign(acc, eval_query(t, q.qs[i])), i + 1)
         IN  fold(from_false(Len(t.words)), 1)

\* SearchableWords::filter_words
filter_words(t, mask) ==
    LET inds == true_inds(mask)
    IN  [j \in 1..Len(inds) |-> t.words[inds[j] + 1]]

\* SearchableWords::filter
filter(t, mask) ==
    LET inds == true_inds(mask)
    IN  [words |-> [j \in 1..Len(inds) |-> t.words[inds[j] + 1]],
         columns |-> [k \in 1..Len(t.columns) |-> Column_filter(t.columns[k], inds)]]

----------------------------------------------------------------------------
(* dumb_word_search.rs                                                     *)

\* dumb_search_words
dumb_search_words(ws, g, h) ==
    LET keep(w) == from_guess_and_answer(g, w) = h
    IN  SelectSeq(ws, keep)

----------------------------------------------------------------------------
(* query_generation.rs                                                     *)

\* variant of clue_possible that admits every hint
clue_always_possible(g, h) == TRUE

\* variant of clue_possible that rejects a character with both an Elsewhere
\* and a Nowhere, in either order
clue_possible_either_order(g, h) ==
    ~ \E j \in 1..WORD_SIZE :
          /\ h[j] = Elsewhere
          /\ \E i \in 1..WORD_SIZE : h[i] = Nowhere /\ g[i] = g[j]

\* clue_possible: false when an Elsewhere follows a Nowhere of the same
\* character
clue_possible(g, h) ==
    ~ \E j \in 1..WORD_SIZE :
          /\ h[j] = Elsewhere
          /\ \E i \in 1..(j - 1) : h[i] = Nowhere /\ g[i] = g[j]

\* the set incorrect_chars of clue_to_query
incorrect_chars(g, h) == {g[i] : i \in {j \in 1..WORD_SIZE : h[j] # Correct}}

\* num_per_char_by_hint.get(&(chr, hint)).unwrap_or(0)
num_per_char_by_hint(g, h, chr, char_hint) ==
    Cardinality({i \in 1..WORD_SIZE : g[i] = chr /\ h[i] = char_hint})

\* variant of count_facts that only ever states a lower bound
count_facts_lower_bound(g, h, chr) ==
    LET num_correct   == num_per_char_by_hint(g, h, chr, Correct)
        num_elsewhere == num_per_char_by_hint(g, h, chr, Elsewhere)
    IN  <<CountAtLeast(num_correct + num_elsewhere, chr)>>

\* the counting fact clue_to_query adds for one incorrect character
count_facts(g, h, chr) ==
    LET num_correct   == num_per_char_by_hint(g, h, chr, Correct)
        num_elsewhere == num_per_char_by_hint(g, h, chr, Elsewhere)
        num_nowhere   == num_per_char_by_hint(g, h, chr, Nowhere)
    IN  IF num_nowhere > 0
        THEN <<CountExact(num_correct + num_elsewhere, chr)>>
        ELSE IF num_elsewhere > 0
        THEN <<CountAtLeast(num_correct + num_elsewhere, chr)>>
        ELSE <<>>

\* the positional sub-query clue_to_query pushes for index ind (0-based)
position_fact(g, h, ind) ==
    IF h[ind + 1] = Correct
    THEN Match(ind, g[ind + 1])
    ELSE Not(Match(ind, g[ind + 1]))

\* clue_to_query, with the iteration order of the HashSet incorrect_chars
\* given as the sequence `order`
clue_to_query_in(g, h, order) ==
    LET RECURSIVE facts(_)
        facts(i) ==
            IF i > Len(order) THEN <<>>
            ELSE count_facts(g, h, order[i]) \o facts(i + 1)
    IN  And([i \in 1..WORD_SIZE |-> position_fact(g, h, i - 1)] \o facts(1))

\* clue_to_query for one fixed iteration order (the result of evaluating the
\* query does not depend on it: the sub-queries are folded with &=)
clue_to_query(g, h) == clue_to_query_in(g, h, Ascending(incorrect_chars(g, h)))

----------------------------------------------------------------------------
(* examples/test_parity.rs: every (answer, guess) pair of a word list is   *)
(* run through the hint derivation, the dumb search and the query engine.  *)

table == [words |-> words, columns |-> columns]

\* the variables of the hint matrix precomputation while it is not running
MIdle ==
    /\ allowed_guesses = <<>>
    /\ possible_answers = <<>>
    /\ all_hints = <<>>
    /\ hints_for_guess = <<>>
    /\ guess_ind = 0
    /\ hint_ind = 0
    /\ written = <<>>

\* the variables of the solver while it is not running
TIdle ==
    /\ max_depth = 0
    /\ printer = None
    /\ stack = <<>>
    /\ ret = <<>>
    /\ prev = <<>>

\* the variables of the table subsetting while it is not running
SIdle ==
    /\ filter_mask = <<>>
    /\ selected = <<>>
    /\ filtered = <<>>
    /\ filtered_selected = <<>>

\* the variables of the Column under test while there is none
CIdle ==
    /\ column = <<>>
    /\ other = <<>>
    /\ source_bools = <<>>
    /\ last_op = <<>>
    /\ column_before = <<>>
    /\ outcome = None
    /\ steps = 0

\* the variables of the word parser while it is not running
WIdle ==
    /\ raw = <<>>
    /\ overflow_checks = FALSE
    /\ parsed = <<>>

\* the variables of the compute_node_aggressive call while there is none
AIdle ==
    /\ node_guesses = <<>>
    /\ node_depth = 0
    /\ node_max_depth = 0
    /\ node_result = <<>>

\* the variables of the specifications of the single units while none is running
XIdle ==
    /\ CIdle
    /\ WIdle
    /\ AIdle

\* the variables of the parity trial while it is not running
QIdle ==
    /\ guess = None
    /\ answer = None
    /\ word_hint = None
    /\ query = None
    /\ smart = None
    /\ dumb = None

\* the word list file: the first MaxTable words of [0, A)^W
WordList == SubSeq(AllWords, 1, Min(MaxTable, Len(AllWords)))

QInit ==
    /\ pc = "trial"
    /\ words = WordList
    /\ columns = build(WordList).columns
    /\ guess \in Word
    /\ \E i \in 1..Len(WordList) : answer = WordList[i]
    /\ word_hint = None
    /\ query = None
    /\ smart = None
    /\ dumb = None
    /\ MIdle
    /\ TIdle
    /\ SIdle
    /\ XIdle

\* let word_hint = WordHint::from_guess_and_answer(guess, answer)
DeriveHint ==
    /\ pc = "trial"
    /\ word_hint' = from_guess_and_answer(guess, answer)
    /\ pc' = "hinted"
    /\ UNCHANGED <<xvars, tablevars, guess, answer, query, smart, dumb, mvars, tvars,
                   svars>>

\* let possible_answers_dumb = dumb_search_words(&words, *guess, word_hint)
DumbSearch ==
    /\ pc = "hinted"
    /\ dumb' = dumb_search_words(words, guess, word_hint)
    /\ pc' = "dumb"
    /\ UNCHANGED <<xvars, tablevars, guess, answer, word_hint, query, smart, mvars, tvars,
                   svars>>

\* let query = clue_to_query(*guess, word_hint)
Compile ==
    /\ pc = "dumb"
    /\ \E order \in Orders(incorrect_chars(guess, word_hint)) :
           query' = clue_to_query_in(guess, word_hint, order)
    /\ pc' = "compiled"
    /\ UNCHANGED <<xvars, tablevars, guess, answer, word_hint, smart, dumb, mvars, tvars,
                   svars>>

\* smart_search.filter_words(&smart_search.eval_query(query.clone()))
SmartSearch ==
    /\ pc = "compiled"
    /\ smart' = filter_words(table, eval_query(table, query))
    /\ pc' = "compared"
    /\ UNCHANGED <<xvars, tablevars, guess, answer, word_hint, query, dumb, mvars, tvars,
                   svars>>

QNext == DeriveHint \/ DumbSearch \/ Compile \/ SmartSearch

SpecQuery == QInit /\ [][QNext]_vars

----------------------------------------------------------------------------
(* lib.rs: the hint derivation and the clue -> query compiler of the crate *)
(* root, run as a trial of a guess against an answer of a word table.      *)

\* guess_to_hints(answer, guess).  As in from_guess_and_answer, each entry
\* of missed_counts writes only the indices of its own character.
guess_to_hints(a, g) ==
    LET missed_counts   == missed_answer_char_counts(g, a)
        guess_char_inds == incorrect_guess_char_inds(g, a)
        num_elsewhere(c) == Min(missed_counts[c], Len(guess_char_inds[c]))
    IN  [i \in 1..WORD_SIZE |->
            IF a[i] = g[i] THEN Correct
            ELSE IF \E c \in (DOMAIN missed_counts) \cap (DOMAIN guess_char_inds) :
                        \E k \in 1..num_elsewhere(c) : guess_char_inds[c][k] = i - 1
                 THEN Elsewhere
                 ELSE Nowhere]

\* the indices (1-based) of the clues with the given hint, ascending
clues_with(hints, hint) ==
    LET has_hint(i) == hints[i] = hint
    IN  SelectSeq([i \in 1..WORD_SIZE |-> i], has_hint)

\* the set elsewhere_chars of lib.rs clue_to_query
elsewhere_chars(g, hints) == {g[i] : i \in {j \in 1..WORD_SIZE : hints[j] = Elsewhere}}

\* the fact lib.rs clue_to_query adds for one character with an Elsewhere
elsewhere_fact(g, hints, chr) ==
    LET num_correct   == Cardinality({i \in 1..WORD_SIZE : g[i] = chr /\ hints[i] = Correct})
        num_elsewhere == Cardinality({i \in 1..WORD_SIZE : g[i] = chr /\ hints[i] = Elsewhere})
        num_nowhere   == Cardinality({i \in 1..WORD_SIZE : g[i] = chr /\ hints[i] = Nowhere})
        min_present   == num_correct + num_elsewhere
        num_other_char_present ==
            Cardinality({i \in 1..WORD_SIZE : hints[i] # Nowhere /\ g[i] # chr})
        max_present   == WORD_SIZE - num_other_char_present
    IN  IF num_nowhere > 0
        THEN CountExact(num_correct + num_elsewhere, chr)
        ELSE Or([k \in 1..(max_present - min_present + 1) |->
                    CountExact(min_present + k - 1, chr)])

\* lib.rs clue_to_query, with the iteration order of the HashSet
\* elsewhere_chars given as the sequence `order`
lib_clue_to_query(g, hints, order) ==
    LET correct   == clues_with(hints, Correct)
        nowhere   == clues_with(hints, Nowhere)
        elsewhere == clues_with(hints, Elsewhere)
    IN  And([k \in 1..Len(correct) |-> Match(correct[k] - 1, g[correct[k]])]
            \o [k \in 1..Len(nowhere) |-> CountExact(0, g[nowhere[k]])]
            \o [k \in 1..Len(elsewhere) |-> Not(Match(elsewhere[k] - 1, g[elsewhere[k]]))]
            \o [k \in 1..Len(order) |-> elsewhere_fact(g, hints, order[k])])

LInit ==
    /\ pc = "lib_trial"
    /\ words = WordList
    /\ columns = build(WordList).columns
    /\ guess \in Word
    /\ \E i \in 1..Len(WordList) : answer = WordList[i]
    /\ word_hint = None
    /\ query = None
    /\ smart = None
    /\ dumb = None
    /\ MIdle
    /\ TIdle
    /\ SIdle
    /\ XIdle

\* let hints = guess_to_hints(answer, guess)
GuessToHints ==
    /\ pc = "lib_trial"
    /\ word_hint' = guess_to_hints(answer, guess)
    /\ pc' = "lib_hinted"
    /\ UNCHANGED <<xvars, tablevars, guess, answer, query, smart, dumb, mvars, tvars,
                   svars>>

\* let query = clue_to_query(guess, hints)
LibCompile ==
    /\ pc = "lib_hinted"
    /\ \E order \in Orders(elsewhere_chars(guess, word_hint)) :
           query' = lib_clue_to_query(guess, word_hint, order)
    /\ pc' = "lib_compiled"
    /\ UNCHANGED <<xvars, tablevars, guess, answer, word_hint, smart, dumb, mvars, tvars,
                   svars>>

\* words.filter_words(&words.eval_query(query))
LibSearch ==
    /\ pc = "lib_compiled"
    /\ smart' = filter_words(table, eval_query(table, query))
    /\ pc' = "lib_compared"
    /\ UNCHANGED <<xvars, tablevars, guess, answer, word_hint, query, dumb, mvars, tvars,
                   svars>>

LNext == GuessToHints \/ LibCompile \/ LibSearch

SpecLib == LInit /\ [][LNext]_vars

----------------------------------------------------------------------------
(* word_search.rs as its tests drive it: a table is built from a word      *)
(* list, a query is evaluated against it, the table is subset by a row     *)
(* mask and the query is evaluated against the subset.                     *)

\* number of rows of the largest table
MaxRows == 3

\* number of sub-queries of the longest And / Or group
MaxGroup == 2

\* the word lists of the tables: slices of [0, A)^W of at most MaxRows
\* words, the empty list among them
TableLists ==
    {SubSeq(AllWords, k, Min(k + n - 1, Len(AllWords))) :
        k \in {j \in 1..Len(AllWords) :
                  (j - 1) % (2 * Pow(ALPHABET_SIZE, WORD_SIZE - 1) + 1) = 0},
        n \in 0..MaxRows}

\* the queries without sub-queries, with ind < W, count <= W and chr < A
AtomicQueries ==
    {Match(ind, chr) : ind \in 0..(WORD_SIZE - 1), chr \in Chars}
        \cup {CountExact(count, chr) : count \in 0..WORD_SIZE, chr \in Chars}
        \cup {CountAtLeast(count, chr) : count \in 0..WORD_SIZE, chr \in Chars}

\* the sub-queries the groups are made of
GroupParts == {Match(0, 0), CountAtLeast(1, 1), Not(CountExact(0, 0))}

GroupSeqs == UNION {[1..n -> GroupParts] : n \in 0..MaxGroup}

GroupQueries == {And(qs) : qs \in GroupSeqs} \cup {Or(qs) : qs \in GroupSeqs}

Queries ==
    AtomicQueries
        \cup GroupQueries
        \cup {Not(q) : q \in AtomicQueries \cup GroupQueries}
        \cup {Not(Not(q)) : q \in AtomicQueries}
        \cup {And(<<Or(<<a, b>>), Not(And(<<a>>))>>) : a, b \in GroupParts}

\* the row masks of a table of len rows: every choice of rows packed by
\* from_bools (padding bits 0), and the mask of all rows with the padding
\* bits 1, as a negation leaves them
Masks(len) ==
    {from_bools(bools) : bools \in [1..len -> BOOLEAN]} \cup {not(from_false(len))}

\* SearchableWords::build(words)
STInit ==
    /\ pc = "built"
    /\ words \in TableLists
    /\ columns = build(words).columns
    /\ MIdle
    /\ QIdle
    /\ TIdle
    /\ SIdle
    /\ XIdle

\* let mask = words.eval_query(query)
EvalQuery ==
    /\ pc = "built"
    /\ \E q \in Queries :
           /\ query' = q
           /\ selected' = eval_query(table, q)
    /\ pc' = "evaluated"
    /\ UNCHANGED <<xvars, tablevars, guess, answer, word_hint, smart, dumb, mvars, tvars,
                   filter_mask, filtered, filtered_selected>>

\* words.filter(&mask)
Filter ==
    /\ pc = "evaluated"
    /\ \E m \in Masks(Len(words)) :
           /\ filter_mask' = m
           /\ filtered' = filter(table, m)
    /\ pc' = "filtered"
    /\ UNCHANGED <<xvars, tablevars, qvars, mvars, tvars, selected, filtered_selected>>

\* the query is evaluated against the filtered table
EvalFiltered ==
    /\ pc = "filtered"
    /\ filtered_selected' = eval_query(filtered, query)
    /\ pc' = "refiltered"
    /\ UNCHANGED <<xvars, tablevars, qvars, mvars, tvars, filter_mask, selected, filtered>>

STNext == EvalQuery \/ Filter \/ EvalFiltered

SpecTable == STInit /\ [][STNext]_vars

----------------------------------------------------------------------------------------------------------------------------------------
(* column.rs as a caller drives it: a Column is made by a constructor and  *)
(* then read, changed in place, negated, filtered and combined with a      *)
(* second Column, which is made by from_true or from_false as the folds of *)
(* eval_query make theirs.  A call that panics ends the run.               *)

\* number of storage words of the longest Column
MaxChunks == 2

\* number of method calls made on the Column under test
MaxCalls == 1

\* the lengths: 0, 1, and around every multiple of the chunk size
ColLens ==
    {0, 1} \cup {n \in UNION {{k * CHUNK_BITS - 1, k * CHUNK_BITS, k * CHUNK_BITS + 1} :
                                  k \in 1..MaxChunks} : n <= MaxChunks * CHUNK_BITS}

\* the bool slices of a length: alternating, and only the last one true
BoolSeqs(n) ==
    {[i \in 1..n |-> i % 2 = 1],
     [i \in 1..n |-> i = n]}

\* the indices handed to get / set: the last index of the column, the first
\* index past it, and the last index of its storage
Inds(c) ==
    {i \in {c.len - 1, c.len, CHUNK_BITS * Len(c.col) - 1} : i >= 0}

\* the index lists handed to filter: every other index, the last and the
\* first index, and an index past the end
IndLists(c) ==
    {[i \in 1..((c.len + 1) \div 2) |-> 2 * (i - 1)], <<c.len>>}
        \cup (IF c.len > 0 THEN {<<c.len - 1, 0>>} ELSE {})

\* a constructor returned `result`, the Column under test
made(name, ind, result) ==
    /\ pc = "new"
    /\ last_op' = <<[name |-> name, ind |-> ind]>>
    /\ column_before' = result
    /\ column' = result
    /\ outcome' = "returned"
    /\ pc' = "made"
    /\ UNCHANGED <<steps, other>>

\* a method was called on the Column under test: it panicked, or left
\* `result` as the Column under test
called(name, ind, result, panicked) ==
    /\ pc = "column" /\ steps < MaxCalls
    /\ last_op' = <<[name |-> name, ind |-> ind]>>
    /\ column_before' = column
    /\ column' = IF panicked THEN column ELSE result
    /\ outcome' = IF panicked THEN "panicked" ELSE "returned"
    /\ pc' = IF panicked THEN "panicked" ELSE "column"
    /\ steps' = steps + 1
    /\ UNCHANGED other

CInit ==
    /\ pc = "new"
    /\ column = from_false(0)
    /\ other = from_false(0)
    /\ source_bools = <<>>
    /\ last_op = <<>>
    /\ column_before = from_false(0)
    /\ outcome = "returned"
    /\ steps = 0
    /\ words = <<>>
    /\ columns = <<>>
    /\ MIdle
    /\ QIdle
    /\ TIdle
    /\ SIdle
    /\ WIdle
    /\ AIdle

\* Column::from_true(len)
FromTrue ==
    /\ \E n \in ColLens : made("from_true", n, from_true(n))
    /\ UNCHANGED <<tablevars, qvars, mvars, tvars, svars, wvars, avars, source_bools>>

\* Column::from_false(len)
FromFalse ==
    /\ \E n \in ColLens : made("from_false", n, from_false(n))
    /\ UNCHANGED <<tablevars, qvars, mvars, tvars, svars, wvars, avars, source_bools>>

\* Column::from_bools(bools)
FromBools ==
    /\ \E n \in ColLens : \E bools \in BoolSeqs(n) :
           /\ made("from_bools", n, from_bools(bools))
           /\ source_bools' = bools
    /\ UNCHANGED <<tablevars, qvars, mvars, tvars, svars, wvars, avars>>

\* Column::one_hot_values(values, 2)[0], for values that are 0 but the last
OneHotValues ==
    /\ \E n \in ColLens :
           made("one_hot_values", n,
                one_hot_values([i \in 1..n |-> IF i = n THEN 1 ELSE 0], 2)[1])
    /\ UNCHANGED <<tablevars, qvars, mvars, tvars, svars, wvars, avars, source_bools>>

\* let other = Column::from_true(len)
OtherFromTrue ==
    /\ pc = "made"
    /\ \E n \in ColLens : other' = from_true(n)
    /\ pc' = "column"
    /\ UNCHANGED <<tablevars, qvars, mvars, tvars, svars, wvars, avars, column, source_bools,
                   last_op, column_before, outcome, steps>>

\* let other = Column::from_false(len)
OtherFromFalse ==
    /\ pc = "made"
    /\ \E n \in ColLens : other' = from_false(n)
    /\ pc' = "column"
    /\ UNCHANGED <<tablevars, qvars, mvars, tvars, svars, wvars, avars, column, source_bools,
                   last_op, column_before, outcome, steps>>

\* column.get(ind)
Get ==
    /\ \E ind \in Inds(column) :
           called("get", ind, column, ind_out_of_range(column, ind))
    /\ UNCHANGED <<tablevars, qvars, mvars, tvars, svars, wvars, avars, source_bools>>

\* column.set(ind, val)
Set ==
    /\ \E ind \in Inds(column) : \E val \in BOOLEAN :
           called("set", ind,
                  IF ind_out_of_range(column, ind) THEN column ELSE set(column, ind, val),
                  ind_out_of_range(column, ind))
    /\ UNCHANGED <<tablevars, qvars, mvars, tvars, svars, wvars, avars, source_bools>>

\* column = column.filter(inds); filter panics in get for an index past the end
FilterColumn ==
    /\ \E inds \in IndLists(column) :
           LET panics == \E i \in 1..Len(inds) : ind_out_of_range(column, inds[i])
           IN  called("filter", Len(inds),
                      IF panics THEN column ELSE Column_filter(column, inds), panics)
    /\ UNCHANGED <<tablevars, qvars, mvars, tvars, svars, wvars, avars, source_bools>>

\* column = !column
Negate ==
    /\ called("not", 0, not(column), FALSE)
    /\ UNCHANGED <<tablevars, qvars, mvars, tvars, svars, wvars, avars, source_bools>>

\* column &= other.clone()
AndAssign ==
    /\ called("bitand_assign", other.len,
              IF column.len # other.len THEN column ELSE bitand_assign(column, other),
              column.len # other.len)
    /\ UNCHANGED <<tablevars, qvars, mvars, tvars, svars, wvars, avars, source_bools>>

\* column |= other.clone()
OrAssign ==
    /\ called("bitor_assign", other.len,
              IF column.len # other.len THEN column ELSE bitor_assign(column, other),
              column.len # other.len)
    /\ UNCHANGED <<tablevars, qvars, mvars, tvars, svars, wvars, avars, source_bools>>

CNext ==
    \/ FromTrue \/ FromFalse \/ FromBools \/ OneHotValues
    \/ OtherFromTrue \/ OtherFromFalse
    \/ Get \/ Set \/ FilterColumn \/ Negate \/ AndAssign \/ OrAssign

SpecColumn == CInit /\ [][CNext]_vars

----------------------------------------------------------------------------
(* word.rs as load_words drives it: a line of a word file is handed to     *)
(* Word::from_str.                                                         *)

\* the bytes of the lines: '@', 'A', the last letter of the alphabet, the
\* first letter past it, 'Z', '[', 'a', the first lowercase letter past the
\* alphabet, and '{'
LineBytes ==
    {64, 65, 65 + ALPHABET_SIZE - 1, 65 + ALPHABET_SIZE, 90, 91,
     97, 97 + ALPHABET_SIZE, 123}

\* the lines: up to WORD_SIZE + 1 bytes
Lines == UNION {[1..n -> LineBytes] : n \in 0..(WORD_SIZE + 1)}

WInit ==
    /\ pc = "line"
    /\ raw \in Lines
    /\ overflow_checks \in BOOLEAN
    /\ parsed = <<>>
    /\ words = <<>>
    /\ columns = <<>>
    /\ MIdle
    /\ QIdle
    /\ TIdle
    /\ SIdle
    /\ CIdle
    /\ AIdle

\* Word::from_str(raw)
Parse ==
    /\ pc = "line"
    /\ parsed' = from_str(raw, overflow_checks)
    /\ pc' = IF from_str(raw, overflow_checks) = <<>> THEN "panicked" ELSE "parsed"
    /\ UNCHANGED <<tablevars, qvars, mvars, tvars, svars, cvars, avars, raw, overflow_checks>>

WNext == Parse

SpecWord == WInit /\ [][WNext]_vars

----------------------------------------------------------------------------
(* examples/calc_decision_tree_general.rs, main: the hint matrix is        *)
(* precomputed guess by guess; every hint of all_possible() that           *)
(* clue_possible admits is compiled and evaluated against the answer table *)
(* and written to the rows of its mask.                                    *)

NumHints == Pow(3, WORD_SIZE)

\* the guess lists of the precomputation: contiguous slices of the word list
\* that start at every ALPHABET_SIZE-th word
GuessLists ==
    {SubSeq(AllWords, k, Min(k + MaxGuessList - 1, Len(AllWords))) :
        k \in {j \in 1..Len(AllWords) : j % ALPHABET_SIZE = 1}}

MInit ==
    /\ pc = "hints"
    /\ possible_answers = WordList
    /\ words = WordList
    /\ columns = build(WordList).columns
    /\ allowed_guesses \in GuessLists
    /\ all_hints = <<>>
    /\ hints_for_guess = [i \in 1..Len(WordList) |-> 0]
    /\ written = [i \in 1..Len(WordList) |-> 0]
    /\ guess_ind = 0
    /\ hint_ind = 0
    /\ QIdle
    /\ TIdle
    /\ SIdle
    /\ XIdle

\* the rows of hints_for_guess that one hint of all_possible() overwrites
hint_rows(t, g, h) ==
    IF ~clue_possible(g, h) THEN {}
    ELSE Range(true_inds(eval_query(t, clue_to_query(g, h))))

\* one iteration of `for hint in WordHint::all_possible()`
HintStep ==
    /\ pc = "hints"
    /\ hint_ind < NumHints
    /\ LET hint == all_possible[hint_ind + 1]
           rows == hint_rows(table, allowed_guesses[guess_ind + 1], hint)
       IN  /\ hints_for_guess' =
                  [i \in DOMAIN hints_for_guess |->
                      IF (i - 1) \in rows THEN hint_id(hint) ELSE hints_for_guess[i]]
           /\ written' =
                  [i \in DOMAIN written |->
                      IF (i - 1) \in rows THEN written[i] + 1 ELSE written[i]]
    /\ hint_ind' = hint_ind + 1
    /\ UNCHANGED <<xvars, pc, tablevars, qvars, allowed_guesses, possible_answers,
                   all_hints, guess_ind, tvars, svars>>

\* all_hints.push(hints_for_guess), then the next guess starts with a row of
\* zeros
PushRow ==
    /\ pc = "hints"
    /\ hint_ind = NumHints
    /\ all_hints' = Append(all_hints, hints_for_guess)
    /\ guess_ind' = guess_ind + 1
    /\ hint_ind' = 0
    /\ hints_for_guess' = [i \in 1..Len(possible_answers) |-> 0]
    /\ written' = [i \in 1..Len(possible_answers) |-> 0]
    /\ pc' = IF guess_ind + 1 = Len(allowed_guesses) THEN "precomputed" ELSE "hints"
    /\ UNCHANGED <<xvars, tablevars, qvars, allowed_guesses, possible_answers, tvars,
                   svars>>

MNext == HintStep \/ PushRow

SpecMatrix == MInit /\ [][MNext]_vars

----------------------------------------------------------------------------
(* f64: est_cost, max_cost and every value computed from them are exact    *)
(* fractions <<numerator, denominator>> in lowest terms with a positive    *)
(* denominator, so that equal costs are equal values.                      *)

Abs(n) == IF n < 0 THEN -n ELSE n

RECURSIVE GCD(_, _)
GCD(a, b) == IF b = 0 THEN a ELSE GCD(b, a % b)

Frac(n, d) ==
    LET g == GCD(Abs(n), Abs(d))
        s == IF d < 0 THEN -1 ELSE 1
    IN  <<(s * n) \div g, (s * d) \div g>>

\* `n as f64`
F(n) == <<n, 1>>

FAdd(x, y) == Frac(x[1] * y[2] + y[1] * x[2], x[2] * y[2])
FSub(x, y) == Frac(x[1] * y[2] - y[1] * x[2], x[2] * y[2])
FMul(x, y) == Frac(x[1] * y[1], x[2] * y[2])
FDiv(x, y) == Frac(x[1] * y[2], x[2] * y[1])
FAbs(x) == <<Abs(x[1]), x[2]>>
FLt(x, y) == x[1] * y[2] < y[1] * x[2]
FLe(x, y) == x[1] * y[2] <= y[1] * x[2]

\* the literal 1e-6
Tolerance == Frac(1, 1000000)

----------------------------------------------------------------------------
(* load_words.rs and the word list files given to main                     *)

\* number of words the word list files are drawn from
DictSize == 6

\* length of the longest possible-answers file
MaxAnswers == 4

\* length of the longest allowed-guesses file
MaxGuessFile == 1

\* The words the files are drawn from: four words of one repeated character
\* (each answers every other with the same hint, so that no guess among
\* them tells the other three apart), then words that share all but their
\* last character with one of them.
Dictionary ==
    [k \in 1..DictSize |->
        IF k <= 4
        THEN [i \in 1..WORD_SIZE |-> k - 1]
        ELSE [i \in 1..WORD_SIZE |->
                 IF i < WORD_SIZE THEN (k - 4) % ALPHABET_SIZE
                 ELSE (k - 5) % ALPHABET_SIZE]]

\* the contiguous slices of the dictionary of at most max_len words, the
\* empty one among them
Slices(max_len) ==
    {SubSeq(Dictionary, kn[1], kn[1] + kn[2] - 1) :
        kn \in {x \in (1..DictSize) \X (0..max_len) : x[1] + x[2] - 1 <= DictSize}}

\* possible-answers files: pairwise distinct words
AnswerFiles == {file \in Slices(MaxAnswers) : file # <<>>}

\* allowed-guesses files
GuessFiles == Slices(MaxGuessFile)

\* the loop of load_guesses_and_answers: every answer that the guess list
\* does not contain is pushed to its end
RECURSIVE push_missing(_, _, _)
push_missing(guesses, answers, i) ==
    IF i > Len(answers) THEN guesses
    ELSE IF answers[i] \in Range(guesses)
    THEN push_missing(guesses, answers, i + 1)
    ELSE push_missing(Append(guesses, answers[i]), answers, i + 1)

\* load_guesses_and_answers
load_guesses_and_answers(guess_file, answer_file) ==
    <<push_missing(guess_file, answer_file, 1), answer_file>>

----------------------------------------------------------------------------
(* examples/calc_decision_tree_general.rs, main: the precomputation as one *)
(* step of the driver that goes on to call the solver                      *)

\* hints_for_guess after the first n hints of all_possible() were applied
RECURSIVE hints_for_guess_after(_, _, _)
hints_for_guess_after(t, g, n) ==
    IF n = 0 THEN [i \in 1..Len(t.words) |-> 0]
    ELSE LET before == hints_for_guess_after(t, g, n - 1)
             hint == all_possible[n]
             rows == hint_rows(t, g, hint)
         IN  [i \in 1..Len(t.words) |->
                 IF (i - 1) \in rows THEN hint_id(hint) ELSE before[i]]

\* all_hints once every guess has been pushed
precompute_all_hints(guesses, answers) ==
    LET searchable_answers == build(answers)
    IN  [k \in 1..Len(guesses) |->
            hints_for_guess_after(searchable_answers, guesses[k], NumHints)]

----------------------------------------------------------------------------
(* decision_tree_general.rs                                                *)
(*                                                                         *)
(* An Option<T> of the solver is a sequence: <<>> is None and <<x>> is     *)
(* Some(x).  HashSet<u16> is a set of 0-based answer indices and           *)
(* HashMap<u8, TreeNode> a function from hint ids to nodes.                *)

\* deepest max_depth handed to the solver (main passes 6)
MaxDepth == 4

\* the max_cost values handed to the solver are the halves up to this many
\* (main passes 3.0402)
MaxCostHalves == 6

Costs == {Frac(n, 2) : n \in 1..MaxCostHalves}

\* GuessFrom
Guess(guess_index) == [from |-> "Guess", ind |-> guess_index]
Answer(answer_index) == [from |-> "Answer", ind |-> answer_index]

\* TreeNode
TreeNode(should_guess, est_cost, next) ==
    [should_guess |-> should_guess, est_cost |-> est_cost, next |-> next]

\* HashMap::new()
NoChildren == <<>>

\* printer.should_print_at_depth(depth) of a MyDebugPrinter whose
\* max_print_depth is Some(0), as main builds it
printing(pr, depth) == pr = "Some" /\ depth <= 0

\* the checks before the guess enumeration, in a variant that tests the
\* cost limit of one guess only after the one-candidate shortcut
shortcuts_leaf_before_cost(answers, depth, maxd, max_cost, first) ==
    IF depth = maxd THEN [decided |-> TRUE, node |-> <<>>]
    ELSE IF Cardinality(answers) = 1
    THEN [decided |-> TRUE,
          node |-> <<TreeNode(Answer(first), F(1), NoChildren)>>]
    ELSE IF FLt(max_cost, F(1)) THEN [decided |-> TRUE, node |-> <<>>]
    ELSE IF depth = maxd - 1 THEN [decided |-> TRUE, node |-> <<>>]
    ELSE IF FLt(max_cost, Frac(3, 2)) THEN [decided |-> TRUE, node |-> <<>>]
    ELSE IF Cardinality(answers) = 2
    THEN LET possible_answer_a == first
             possible_answer_b == CHOOSE b \in answers : b # first
         IN  [decided |-> TRUE,
              node |-> <<TreeNode(
                  Answer(possible_answer_a), Frac(3, 2),
                  all_hints[possible_answer_a + 1][possible_answer_b + 1]
                      :> TreeNode(Answer(possible_answer_b), F(1), NoChildren))>>]
    ELSE [decided |-> FALSE, node |-> <<>>]

\* the checks before the guess enumeration, in a variant without the check
\* that two guesses still fit below the depth limit
shortcuts_without_depth_margin(answers, depth, maxd, max_cost, first) ==
    IF depth = maxd THEN [decided |-> TRUE, node |-> <<>>]
    ELSE IF FLt(max_cost, F(1)) THEN [decided |-> TRUE, node |-> <<>>]
    ELSE IF Cardinality(answers) = 1
    THEN [decided |-> TRUE,
          node |-> <<TreeNode(Answer(first), F(1), NoChildren)>>]
    ELSE IF FLt(max_cost, Frac(3, 2)) THEN [decided |-> TRUE, node |-> <<>>]
    ELSE IF Cardinality(answers) = 2
    THEN LET possible_answer_a == first
             possible_answer_b == CHOOSE b \in answers : b # first
         IN  [decided |-> TRUE,
              node |-> <<TreeNode(
                  Answer(possible_answer_a), Frac(3, 2),
                  all_hints[possible_answer_a + 1][possible_answer_b + 1]
                      :> TreeNode(Answer(possible_answer_b), F(1), NoChildren))>>]
    ELSE [decided |-> FALSE, node |-> <<>>]

\* The checks of compute_decision_tree_aggressive before the guess
\* enumeration.  `first` is the candidate the HashSet iterator yields first;
\* depth never exceeds maxd (the root call has depth 0 and a call that
\* passes the first check recurses with depth + 1), so the u8 subtraction
\* maxd - 1 is only evaluated for maxd >= 1.  decided = FALSE: none of the
\* checks applied and the guess enumeration runs.
shortcuts(answers, depth, maxd, max_cost, first) ==
    IF depth = maxd THEN [decided |-> TRUE, node |-> <<>>]
    ELSE IF FLt(max_cost, F(1)) THEN [decided |-> TRUE, node |-> <<>>]
    ELSE IF Cardinality(answers) = 1
    THEN [decided |-> TRUE,
          node |-> <<TreeNode(Answer(first), F(1), NoChildren)>>]
    ELSE IF depth = maxd - 1 THEN [decided |-> TRUE, node |-> <<>>]
    ELSE IF FLt(max_cost, Frac(3, 2)) THEN [decided |-> TRUE, node |-> <<>>]
    ELSE IF Cardinality(answers) = 2
    THEN LET possible_answer_a == first
             possible_answer_b == CHOOSE b \in answers : b # first
         IN  [decided |-> TRUE,
              node |-> <<TreeNode(
                  Answer(possible_answer_a), Frac(3, 2),
                  all_hints[possible_answer_a + 1][possible_answer_b + 1]
                      :> TreeNode(Answer(possible_answer_b), F(1), NoChildren))>>]
    ELSE [decided |-> FALSE, node |-> <<>>]

\* num_answers_by_hint of the guess ordering
num_answers_by_hint(g, answers) ==
    [h \in {all_hints[g + 1][a + 1] : a \in answers} |->
        Cardinality({a \in answers : all_hints[g + 1][a + 1] = h})]

most_answers_for_any_hint(g, answers) ==
    LET sizes == Range(num_answers_by_hint(g, answers))
    IN  CHOOSE m \in sizes : \A n \in sizes : n <= m

\* variant of guess_order without the filter on the largest class
guess_order_unfiltered(answers) == 0..(Len(all_hints) - 1)

\* the guesses of guess_order: those that survive the filter.  The order
\* sort_unstable_by puts them in is taken one guess at a time, see NextGuess.
guess_order(answers) ==
    {g \in 0..(Len(all_hints) - 1) :
        most_answers_for_any_hint(g, answers) # Cardinality(answers)}

\* the guesses that can stand first in a sorted order of `order`
first_of_order(order, answers) ==
    {g \in order : \A k \in order :
        most_answers_for_any_hint(g, answers) <= most_answers_for_any_hint(k, answers)}

\* the useless check of the guess loop
useless(g, answers) ==
    \A a, b \in answers : all_hints[g + 1][a + 1] = all_hints[g + 1][b + 1]

\* variant of answers_by_hint that puts every candidate into every class
answers_by_hint_unsplit(g, answers) ==
    [h \in {all_hints[g + 1][a + 1] : a \in answers} |-> answers]

answers_by_hint(g, answers) ==
    [h \in {all_hints[g + 1][a + 1] : a \in answers} |->
        {a \in answers : all_hints[g + 1][a + 1] = h}]

\* variant of est_cost_lower_bound that takes the class of the all-correct
\* hint for a class that still costs a guess
est_cost_lower_bound_without_correct_hint(g, answers) ==
    FSub(F(3), FDiv(F(Cardinality(DOMAIN answers_by_hint(g, answers))),
                    F(Cardinality(answers))))

est_cost_lower_bound(g, answers) ==
    LET correct_hint_present == 0 \in DOMAIN answers_by_hint(g, answers)
        num_hints == Cardinality(DOMAIN answers_by_hint(g, answers))
        num_answers == Cardinality(answers)
    IN  IF correct_hint_present
        THEN FSub(F(3), FDiv(FAdd(F(num_hints), F(1)), F(num_answers)))
        ELSE FSub(F(3), FDiv(F(num_hints), F(num_answers)))

\* position of a class of n answers in hints_answers after the sort by size
\* and the rotate_left: the classes of three or more first, ascending, then
\* the classes of one and of two
class_rank(n, num_answers) == IF n >= 3 THEN n ELSE n + num_answers

\* the hints that can stand first among the classes still to be visited
first_of_hints(f) ==
    LET classes == answers_by_hint(f.guess[1].should_guess.ind, f.possible_answers)
        rank(h) == class_rank(Cardinality(classes[h]), Cardinality(f.possible_answers))
    IN  {h \in f.hints_answers : \A k \in f.hints_answers : rank(h) <= rank(k)}

hint_likelihood(n, num_answers) == FDiv(F(n), F(num_answers))

child_est_cost_lower_bound(n, num_answers) ==
    FDiv(FSub(FMul(F(2), F(n)), F(1)), F(num_answers))

remaining_est_cost_budget(f, n) ==
    FAdd(FSub(f.guess_max_est_cost, f.guess[1].est_cost),
         child_est_cost_lower_bound(n, Cardinality(f.possible_answers)))

child_max_est_cost(f, n) ==
    FDiv(remaining_est_cost_budget(f, n),
         hint_likelihood(n, Cardinality(f.possible_answers)))

\* variant of est_cost_after_child that takes the remaining budget for the
\* amount the lower bound already credited
est_cost_after_child_less_budget(f, n, child) ==
    LET child_est_cost_scaled ==
            FMul(child.est_cost, hint_likelihood(n, Cardinality(f.possible_answers)))
        extra == FSub(child_est_cost_scaled, remaining_est_cost_budget(f, n))
    IN  IF FLt(Tolerance, FAbs(extra))
        THEN FAdd(f.guess[1].est_cost, extra)
        ELSE f.guess[1].est_cost

\* guess.est_cost after the child for a class of n answers has returned
est_cost_after_child(f, n, child) ==
    LET child_est_cost_scaled ==
            FMul(child.est_cost, hint_likelihood(n, Cardinality(f.possible_answers)))
        extra == FSub(child_est_cost_scaled,
                      child_est_cost_lower_bound(n, Cardinality(f.possible_answers)))
    IN  IF FLt(Tolerance, FAbs(extra))
        THEN FAdd(f.guess[1].est_cost, extra)
        ELSE f.guess[1].est_cost

\* variant of Frame whose guess_max_est_cost starts one guess above max_cost
Frame_above_max_cost(answers, depth, max_cost) ==
    [possible_answers   |-> answers,
     depth              |-> depth,
     max_cost           |-> max_cost,
     best               |-> <<>>,
     guess_max_est_cost |-> FAdd(max_cost, F(1)),
     guess_order        |-> guess_order(answers),
     guess              |-> <<>>,
     hints_answers      |-> {},
     hint               |-> -1]

\* the locals of one call that has entered the guess enumeration.
\* guess = <<>>: between two guesses of 'guess_loop; hint = -1: no child call
\* is running.
Frame(answers, depth, max_cost) ==
    [possible_answers   |-> answers,
     depth              |-> depth,
     max_cost           |-> max_cost,
     best               |-> <<>>,
     guess_max_est_cost |-> max_cost,
     guess_order        |-> guess_order(answers),
     guess              |-> <<>>,
     hints_answers      |-> {},
     hint               |-> -1]

\* a call that has returned: its arguments, its result and whether the
\* result comes from the guess enumeration
Returned(answers, depth, max_cost, node, searched) ==
    [possible_answers |-> answers, depth |-> depth, max_cost |-> max_cost,
     node |-> node, searched |-> searched]

\* `continue 'guess_loop`
next_guess(f) == [f EXCEPT !.guess = <<>>, !.hints_answers = {}, !.hint = -1]

\* The call r returns to the frames stk of its callers: the root call ends
\* the run; a child call continues the class loop of its parent (the match
\* on the child's result and the check of guess.est_cost after it).
return_to(stk, r) ==
    IF stk = <<>>
    THEN [pc |-> "done", stack |-> <<>>, ret |-> <<r>>]
    ELSE LET f == stk[Len(stk)]
             est_cost == est_cost_after_child(
                             f, Cardinality(r.possible_answers), r.node[1])
             guess_with_child ==
                 [f.guess[1] EXCEPT !.est_cost = est_cost,
                                    !.next = (f.hint :> r.node[1]) @@ @]
             resumed ==
                 IF r.node = <<>> THEN next_guess(f)
                 ELSE IF FLe(f.guess_max_est_cost, est_cost) THEN next_guess(f)
                 ELSE [f EXCEPT !.guess = <<guess_with_child>>, !.hint = -1]
         IN  [pc |-> "solving",
              stack |-> [stk EXCEPT ![Len(stk)] = resumed],
              ret |-> <<r>>]

\* compute_decision_tree_aggressive is called by the frames stk: the checks
\* before the enumeration decide the call at once, or the call enters the
\* enumeration; there the printer, if it prints at this depth, slices
\* guess_order[..5] and panics on a shorter vector.
call(stk, answers, depth, maxd, max_cost, pr, first) ==
    LET s == shortcuts(answers, depth, maxd, max_cost, first)
    IN  IF s.decided
        THEN return_to(stk, Returned(answers, depth, max_cost, s.node, FALSE))
        ELSE IF printing(pr, depth) /\ Cardinality(guess_order(answers)) < 5
        THEN [pc |-> "panicked", stack |-> <<>>, ret |-> <<>>]
        ELSE [pc |-> "solving",
              stack |-> Append(stk, Frame(answers, depth, max_cost)),
              ret |-> <<>>]

\* the word list files: main loads them before anything else
TInit ==
    /\ pc = "loaded"
    /\ \E guess_file \in GuessFiles, answer_file \in AnswerFiles :
           /\ allowed_guesses = load_guesses_and_answers(guess_file, answer_file)[1]
           /\ possible_answers = load_guesses_and_answers(guess_file, answer_file)[2]
    /\ words = <<>>
    /\ columns = <<>>
    /\ all_hints = <<>>
    /\ hints_for_guess = <<>>
    /\ guess_ind = 0
    /\ hint_ind = 0
    /\ written = <<>>
    /\ QIdle
    /\ TIdle
    /\ SIdle
    /\ XIdle

\* main, "precomputing all hints..."
Precompute ==
    /\ pc = "loaded"
    /\ words' = possible_answers
    /\ columns' = build(possible_answers).columns
    /\ all_hints' = precompute_all_hints(allowed_guesses, possible_answers)
    /\ guess_ind' = Len(allowed_guesses)
    /\ pc' = "precomputed"
    /\ UNCHANGED <<xvars, qvars, allowed_guesses, possible_answers, hints_for_guess,
                   hint_ind, written, tvars, svars>>

\* the root call: every answer is a candidate and depth is 0
Solve ==
    /\ pc = "precomputed"
    /\ \E maxd \in 0..MaxDepth, max_cost \in Costs, pr \in {None, "Some"},
          first \in 0..(Len(possible_answers) - 1) :
           LET c == call(<<>>, 0..(Len(possible_answers) - 1), 0, maxd,
                         max_cost, pr, first)
           IN  /\ max_depth' = maxd
               /\ printer' = pr
               /\ pc' = c.pc
               /\ stack' = c.stack
               /\ ret' = c.ret
    /\ UNCHANGED <<xvars, tablevars, qvars, mvars, prev, svars>>

\* one iteration of 'guess_loop up to the class loop: the next guess of the
\* sorted order (any of the guesses that tie for the first place), the
\* useless check and the lower bound
NextGuess ==
    /\ pc = "solving"
    /\ LET f == stack[Len(stack)]
       IN  /\ f.guess = <<>>
           /\ \E g \in first_of_order(f.guess_order, f.possible_answers) :
                  LET rest == [f EXCEPT !.guess_order = @ \ {g}]
                      lower_bound == est_cost_lower_bound(g, f.possible_answers)
                  IN  stack' = [stack EXCEPT ![Len(stack)] =
                          IF useless(g, f.possible_answers) THEN rest
                          ELSE IF FLe(f.guess_max_est_cost, lower_bound) THEN rest
                          ELSE [rest EXCEPT
                                   !.guess = <<TreeNode(Guess(g), lower_bound, NoChildren)>>,
                                   !.hints_answers =
                                       DOMAIN answers_by_hint(g, f.possible_answers)]]
    /\ ret' = <<>>
    /\ UNCHANGED <<xvars, pc, tablevars, qvars, mvars, max_depth, printer, prev, svars>>

\* one iteration of the class loop: the next class of the reordered
\* hints_answers (any of the classes that tie for the first place); the
\* all-correct class is skipped, any other class is handed to a child call
NextClass ==
    /\ pc = "solving"
    /\ LET f == stack[Len(stack)]
       IN  /\ f.guess # <<>>
           /\ \E hint \in first_of_hints(f) :
                  LET hint_possible_answers ==
                          answers_by_hint(f.guess[1].should_guess.ind,
                                          f.possible_answers)[hint]
                      visited == [f EXCEPT !.hints_answers = @ \ {hint}]
                  IN  IF hint = 0
                      THEN /\ stack' = [stack EXCEPT ![Len(stack)] = visited]
                           /\ ret' = <<>>
                           /\ pc' = pc
                      ELSE \E first \in hint_possible_answers :
                               LET c == call(
                                       [stack EXCEPT ![Len(stack)] =
                                           [visited EXCEPT !.hint = hint]],
                                       hint_possible_answers, f.depth + 1, max_depth,
                                       child_max_est_cost(
                                           f, Cardinality(hint_possible_answers)),
                                       printer, first)
                               IN  /\ stack' = c.stack
                                   /\ ret' = c.ret
                                   /\ pc' = c.pc
    /\ UNCHANGED <<xvars, tablevars, qvars, mvars, max_depth, printer, prev, svars>>

\* after the class loop: "Evaluate if this guess beats the current best
\* guess"
GuessDone ==
    /\ pc = "solving"
    /\ LET f == stack[Len(stack)]
           this_guess_is_new_best ==
               IF f.best # <<>> /\ FLe(f.best[1].est_cost, f.guess[1].est_cost)
               THEN FALSE ELSE TRUE
       IN  /\ f.guess # <<>>
           /\ f.hints_answers = {}
           /\ stack' = [stack EXCEPT ![Len(stack)] =
                  IF this_guess_is_new_best
                  THEN [next_guess(f) EXCEPT
                           !.guess_max_est_cost = f.guess[1].est_cost,
                           !.best = f.guess]
                  ELSE next_guess(f)]
    /\ ret' = <<>>
    /\ UNCHANGED <<xvars, pc, tablevars, qvars, mvars, max_depth, printer, prev, svars>>

\* the guess enumeration is over: the call returns best
ReturnBest ==
    /\ pc = "solving"
    /\ LET f == stack[Len(stack)]
           r == return_to(SubSeq(stack, 1, Len(stack) - 1),
                          Returned(f.possible_answers, f.depth, f.max_cost,
                                   f.best, TRUE))
       IN  /\ f.guess = <<>>
           /\ f.guess_order = {}
           /\ stack' = r.stack
           /\ ret' = r.ret
           /\ pc' = r.pc
    /\ UNCHANGED <<xvars, tablevars, qvars, mvars, max_depth, printer, prev, svars>>

TNext == Precompute \/ Solve \/ NextGuess \/ NextClass \/ GuessDone \/ ReturnBest

SpecTree == TInit /\ [][TNext]_vars

\* main has nothing left to run: the root call has returned or the program
\* has panicked
ended == pc \in {"done", "panicked"}

\* main and the solver run on, nothing outside the program holds a step
\* back: weak fairness of the steps, WF_vars(TNext), with
\* ENABLED <<TNext>>_vars written out: every step changes the state (it
\* moves pc or changes the top frame) and a step is possible exactly while
\* the run has not ended
SpecTreeFair ==
    TInit /\ [][TNext]_vars /\ ([]<><<TNext>>_vars \/ <>[]ended)

\* The caller retries with relaxed bounds: the same matrix and max_depth and
\* a max_cost that is not smaller.  prev keeps what the earlier call
\* returned and whether the new max_cost is larger than the earlier one.
SolveAgain ==
    /\ pc = "done"
    /\ prev = <<>>
    /\ \E max_cost \in {c \in Costs : FLe(ret[1].max_cost, c)},
          first \in 0..(Len(possible_answers) - 1) :
           LET c == call(<<>>, 0..(Len(possible_answers) - 1), 0, max_depth,
                         max_cost, printer, first)
           IN  /\ prev' = <<[est_cost |-> IF ret[1].node = <<>> THEN <<>>
                                          ELSE <<ret[1].node[1].est_cost>>,
                             relaxed |-> FLt(ret[1].max_cost, max_cost)]>>
               /\ pc' = c.pc
               /\ stack' = c.stack
               /\ ret' = c.ret
    /\ UNCHANGED <<xvars, tablevars, qvars, mvars, max_depth, printer, svars>>

RNext == TNext \/ SolveAgain

SpecRetry == TInit /\ [][RNext]_vars

\* The solver runs a second time on identical inputs: the same matrix,
\* candidates, depth, max_depth, max_cost and printer.  Only what the source
\* leaves open may differ: the iteration order of the HashSets and HashMaps
\* and the order sort_unstable_by gives to equal keys.  prev keeps the result
\* of the first run.
SolveSame ==
    /\ pc = "done"
    /\ prev = <<>>
    /\ \E first \in 0..(Len(possible_answers) - 1) :
           LET c == call(<<>>, 0..(Len(possible_answers) - 1), 0, max_depth,
                         ret[1].max_cost, printer, first)
           IN  /\ prev' = <<[node |-> ret[1].node]>>
               /\ pc' = c.pc
               /\ stack' = c.stack
               /\ ret' = c.ret
    /\ UNCHANGED <<xvars, tablevars, qvars, mvars, max_depth, printer, svars>>

SNext == TNext \/ SolveSame

SpecRerun == TInit /\ [][SNext]_vars

----------------------------------------------------------------------------
(* decision_tree.rs                                                        *)

\* TreeNode of decision_tree.rs
EnterNode(should_enter, next) == [should_enter |-> should_enter, next |-> next]

\* the sum of f over the finite set S, as a fraction
RECURSIVE FSumOver(_, _)
FSumOver(f, S) ==
    IF S = {} THEN F(0)
    ELSE LET x == CHOOSE y \in S : TRUE
         IN  FAdd(f[x], FSumOver(f, S \ {x}))

\* compute_node_aggressive: <<>> for None, <<[node, est_cost]>> for Some.
\* possible_answers is the table t.  The hints of a guess are handled in
\* the iteration order of a HashSet; the guess is given up as soon as one
\* of them cannot be followed and its cost is a sum over all of them
\* otherwise, so the order does not show in what is returned.
RECURSIVE compute_node_aggressive(_, _, _, _)
compute_node_aggressive(guesses, t, depth, maxd) ==
    IF depth = maxd THEN <<>>
    ELSE IF Len(t.words) = 1
    THEN <<[node |-> EnterNode(filter_words(t, from_true(1))[1], <<>>),
            est_cost |-> F(1)]>>
    ELSE IF Len(t.words) = 2
    THEN LET possible_answer_words == filter_words(t, from_true(2))
             possible_answer_a == possible_answer_words[1]
             possible_answer_b == possible_answer_words[2]
         IN  <<[node |-> EnterNode(possible_answer_a,
                            from_guess_and_answer(possible_answer_a, possible_answer_b)
                                :> EnterNode(possible_answer_b, <<>>)),
                est_cost |-> Frac(3, 2)]>>
    ELSE LET \* what one iteration of the loop over allowed_guesses arrives
             \* at: <<>> when it `continue`s before the comparison with best
             evaluated(g) ==
                 LET first_mask ==
                         eval_query(t, clue_to_query(g, from_guess_and_answer(g, t.words[1])))
                     other_guess(x) == x # g
                     child_allowed_guesses == SelectSeq(guesses, other_guess)
                     possible_hints ==
                         {from_guess_and_answer(g, t.words[i]) : i \in 1..Len(t.words)}
                     mask == [h \in possible_hints |-> eval_query(t, clue_to_query(g, h))]
                     followed ==
                         {h \in possible_hints : count_true(mask[h]) # 0 /\ ~all_correct(h)}
                     child ==
                         [h \in followed |->
                             IF depth = maxd - 1 THEN <<>>
                             ELSE compute_node_aggressive(child_allowed_guesses,
                                      filter(t, mask[h]), depth + 1, maxd)]
                     addl_cost ==
                         [h \in followed |->
                             FDiv(FMul(child[h][1].est_cost, F(count_true(mask[h]))),
                                  F(Len(t.words)))]
                 IN  IF count_true(first_mask) = Len(t.words) THEN <<>>
                     ELSE IF \E h \in followed : child[h] = <<>> THEN <<>>
                     ELSE <<[guess |-> g,
                             next |-> [h \in followed |-> child[h][1].node],
                             est_cost |-> FAdd(F(1), FSumOver(addl_cost, followed))]>>
             \* `best` after the first k guesses
             RECURSIVE best_after(_)
             best_after(k) ==
                 IF k = 0 THEN <<>>
                 ELSE LET best == best_after(k - 1)
                          this == evaluated(guesses[k])
                      IN  IF this = <<>> THEN best
                          ELSE IF best # <<>> /\ FLe(best[1].est_cost, this[1].est_cost)
                          THEN best
                          ELSE this
             best_guess == best_after(Len(guesses))
         IN  IF best_guess = <<>> THEN <<>>
             ELSE <<[node |-> EnterNode(best_guess[1].guess, best_guess[1].next),
                     est_cost |-> best_guess[1].est_cost]>>

----------------------------------------------------------------------------
(* examples/calc_decision_tree.rs: the words of a file are both the        *)
(* guesses and the answers of a compute_node_aggressive call.              *)

AInit ==
    /\ pc = "loaded"
    /\ words \in AnswerFiles
    /\ columns = build(words).columns
    /\ node_guesses = words
    /\ node_max_depth \in 1..MaxDepth
    /\ node_depth \in 0..node_max_depth
    /\ node_result = <<>>
    /\ MIdle
    /\ QIdle
    /\ TIdle
    /\ SIdle
    /\ CIdle
    /\ WIdle

\* compute_node_aggressive(&words, possible_answers, depth, max_depth, false)
ComputeNode ==
    /\ pc = "loaded"
    /\ node_result' = compute_node_aggressive(node_guesses, table, node_depth, node_max_depth)
    /\ pc' = "computed"
    /\ UNCHANGED <<tablevars, qvars, mvars, tvars, svars, cvars, wvars,
                   node_guesses, node_depth, node_max_depth>>

ANext == ComputeNode

SpecNode == AInit /\ [][ANext]_vars

----------------------------------------------------------------------------
(* Claims.                                                                 *)

\* C3: when a row is complete every entry has been written by exactly one
\* hint and holds the id of from_guess_and_answer(guess, answer); the
\* finished matrix holds that id at every H[g][a].
C3_MatrixIsHintOfGuessAndAnswer ==
    /\ (pc = "hints" /\ hint_ind = NumHints) =>
           \A a \in 1..Len(possible_answers) :
               /\ written[a] = 1
               /\ hints_for_guess[a] =
                      hint_id(from_guess_and_answer(allowed_guesses[guess_ind + 1],
                                                    possible_answers[a]))
    /\ pc = "precomputed" =>
           /\ Len(all_hints) = Len(allowed_guesses)
           /\ \A g \in 1..Len(allowed_guesses) :
                  \A a \in 1..Len(possible_answers) :
                      all_hints[g][a] =
                          hint_id(from_guess_and_answer(allowed_guesses[g],
                                                        possible_answers[a]))

\* a finished matrix of two rows whose second guess repeats a character
\* that some answer marks Elsewhere and then Nowhere
C3_Witness ==
    /\ pc = "precomputed"
    /\ Len(all_hints) = 2
    /\ \E a \in 1..Len(possible_answers) :
           /\ SplitChar(allowed_guesses[2],
                        from_guess_and_answer(allowed_guesses[2], possible_answers[a]))
           /\ all_hints[2][a] # all_hints[1][a]
           /\ all_hints[2][a] # 0

\* C1: once the query compiled from (guess, hint(guess, answer)) has been
\* evaluated, its mask selects exactly the rows of the table whose hint for
\* the guess equals the hint of the answer; the answer is among them and the
\* selected words are the words dumb_search_words returns.
C1_QuerySelectsHintClass ==
    pc = "compared" =>
        LET mask == to_bools(eval_query(table, query))
        IN  /\ \A i \in 1..Len(words) :
                   mask[i] = (from_guess_and_answer(guess, words[i])
                                = from_guess_and_answer(guess, answer))
            /\ answer \in Range(smart)
            /\ Range(smart) = Range(dumb)
            /\ Len(smart) = Len(dumb)

C1_Witness ==
    /\ pc = "compared"
    /\ SplitChar(guess, word_hint)
    /\ Len(smart) >= 2
    /\ Len(smart) < Len(words)

\* C2: the derived hint is the two-pass rule: index i is Correct iff the
\* guess and the answer agree there, and a non-Correct index holding c is
\* Elsewhere iff fewer non-Correct guess indices to its left hold c than
\* there are non-Correct answer indices holding c (so exactly the leftmost
\* min(m_c, k_c) are Elsewhere), otherwise Nowhere.
C2_HintIsTwoPassRule ==
    pc # "trial" =>
        \A i \in 1..WORD_SIZE :
            LET c == guess[i]
                m_c == Cardinality({j \in 1..WORD_SIZE :
                                       answer[j] # guess[j] /\ answer[j] = c})
                left == Cardinality({j \in 1..(i - 1) :
                                        answer[j] # guess[j] /\ guess[j] = c})
            IN  word_hint[i] =
                    IF guess[i] = answer[i] THEN Correct
                    ELSE IF left < m_c THEN Elsewhere
                    ELSE Nowhere

C2_Witness ==
    /\ pc = "hinted"
    /\ SplitChar(guess, word_hint)
    /\ \E i \in 1..WORD_SIZE :
           word_hint[i] = Elsewhere /\ count_chr(guess, guess[i]) = 1

----------------------------------------------------------------------------
(* Reading a returned tree.                                                *)

\* ReadableTreeNode::from_generalized_tree_node: the word a node plays
should_guess_word(node) ==
    IF node.should_guess.from = "Guess"
    THEN allowed_guesses[node.should_guess.ind + 1]
    ELSE possible_answers[node.should_guess.ind + 1]

\* the id of the hint whose every character is Correct
all_correct_hint_id == hint_id([i \in 1..WORD_SIZE |-> Correct])

\* the id of the hint that playing the word w against the answer with index
\* a produces
observed_hint(w, a) == hint_id(from_guess_and_answer(w, possible_answers[a + 1]))

\* the candidates of `answers` that answer the word w with the hint id h
hint_class(w, answers, h) == {a \in answers : observed_hint(w, a) = h}

\* the walk from `node` for the answer with index a: play the node's word,
\* observe the hint, follow next[hint]; it ends well at a node whose word is
\* the answer and fails at a missing child
RECURSIVE WalkFinds(_, _)
WalkFinds(node, a) ==
    LET h == observed_hint(should_guess_word(node), a)
    IN  IF h = all_correct_hint_id
        THEN should_guess_word(node) = possible_answers[a + 1]
        ELSE h \in DOMAIN node.next /\ WalkFinds(node.next[h], a)

\* the number of guesses on the longest path from `node` to a leaf
RECURSIVE Height(_)
Height(node) ==
    IF DOMAIN node.next = {} THEN 1
    ELSE LET below == {Height(node.next[h]) : h \in DOMAIN node.next}
         IN  1 + CHOOSE m \in below : \A n \in below : n <= m

\* est_cost of every node of the subtree is the expected number of guesses
\* under a uniformly random candidate of `answers`
RECURSIVE ExpectedCostHolds(_, _)
ExpectedCostHolds(node, answers) ==
    LET w == should_guess_word(node)
        weighted(h) ==
            FMul(Frac(Cardinality(hint_class(w, answers, h)), Cardinality(answers)),
                 node.next[h].est_cost)
        RECURSIVE weighted_sum(_)
        weighted_sum(hs) ==
            IF hs = {} THEN F(0)
            ELSE LET h == CHOOSE x \in hs : TRUE
                 IN  FAdd(weighted(h), weighted_sum(hs \ {h}))
    IN  IF DOMAIN node.next = {} THEN node.est_cost = F(1)
        ELSE /\ node.est_cost = FAdd(F(1), weighted_sum(DOMAIN node.next))
             /\ \A h \in DOMAIN node.next :
                    ExpectedCostHolds(node.next[h], hint_class(w, answers, h))

\* more guesses than any strategy of the model spends in total
Unreachable == Pow(10, 6)

\* The least total number of guesses, summed over the candidates, of a
\* decision tree over the words of the guess list that identifies every
\* candidate of `answers` with at most k guesses on every path; Unreachable
\* or more if there is none.  A guess that leaves the candidates in one
\* class is no use to a strategy and is left out.
RECURSIVE LeastTotal(_, _)
LeastTotal(answers, k) ==
    IF answers = {} THEN 0
    ELSE IF k = 0 THEN Unreachable
    ELSE LET hints_of(g) == {observed_hint(allowed_guesses[g], a) : a \in answers}
             splits(g) ==
                 \/ Cardinality(hints_of(g)) > 1
                 \/ hints_of(g) = {all_correct_hint_id}
             RECURSIVE below(_, _)
             below(g, hs) ==
                 IF hs = {} THEN 0
                 ELSE LET h == CHOOSE x \in hs : TRUE
                      IN  LeastTotal(hint_class(allowed_guesses[g], answers, h), k - 1)
                              + below(g, hs \ {h})
             total(g) ==
                 Cardinality(answers) + below(g, hints_of(g) \ {all_correct_hint_id})
             totals == {total(g) : g \in {x \in 1..Len(allowed_guesses) : splits(x)}}
         IN  IF totals = {} THEN Unreachable
             ELSE Min(Unreachable, CHOOSE m \in totals : \A n \in totals : m <= n)

\* some strategy respects both bounds of the returned call r
StrategyExists(r) ==
    LET total == LeastTotal(r.possible_answers, max_depth - r.depth)
    IN  /\ total < Unreachable
        /\ FLe(Frac(total, Cardinality(r.possible_answers)), r.max_cost)

----------------------------------------------------------------------------
(* Claims about the solver.                                                *)

\* C4: for every tree a call returns and every candidate a of the call, the
\* walk from the root that plays each node's word, observes its hint against
\* a and follows next[hint] never needs a missing child and ends at a node
\* whose word is a.
C4_WalkFindsEveryCandidate ==
    (ret # <<>> /\ ret[1].node # <<>>) =>
        \A a \in ret[1].possible_answers : WalkFinds(ret[1].node[1], a)

\* C5: every root-to-leaf path of a tree returned by a call with depth d
\* holds at most max_depth - d guesses.
C5_PathsFitDepthLimit ==
    (ret # <<>> /\ ret[1].node # <<>>) =>
        Height(ret[1].node[1]) <= max_depth - ret[1].depth

\* a child call that ran the guess enumeration returns a tree whose longest
\* path takes all the guesses the depth limit leaves
C5_Witness ==
    /\ ret # <<>>
    /\ ret[1].node # <<>>
    /\ ret[1].searched
    /\ ret[1].depth >= 1
    /\ Height(ret[1].node[1]) = max_depth - ret[1].depth

\* C6: est_cost of every returned node is the expected number of guesses of
\* its subtree under a uniformly random candidate: 1 for a leaf, and
\* 1 + the sum over the children h of |class_h| / p * child_h.est_cost for an
\* internal node, class_h being the candidates that answer the node's word
\* with hint h.
C6_EstCostIsExpectedGuesses ==
    (ret # <<>> /\ ret[1].node # <<>>) =>
        ExpectedCostHolds(ret[1].node[1], ret[1].possible_answers)

\* C7: a call returns None if and only if no strategy respects both bounds:
\* no decision tree over the guess list identifies every candidate within
\* max_depth - depth guesses on every path at an expected number of guesses
\* of at most max_cost.
C7_NoneIffNoStrategy ==
    ret # <<>> => ((ret[1].node = <<>>) <=> ~StrategyExists(ret[1]))

\* C8: a call on two candidates with depth <= max_depth - 2 and
\* max_cost >= 1.5 returns, for some order w1, w2 of the two, a node guessing
\* the answer w1 with est_cost 1.5 whose only child is keyed by the hint of
\* word w1 against answer w2 and is a leaf naming w2 with est_cost 1.
C8_PairBranchesOnHintOfPair ==
    (/\ ret # <<>>
     /\ Cardinality(ret[1].possible_answers) = 2
     /\ ret[1].depth <= max_depth - 2
     /\ FLe(Frac(3, 2), ret[1].max_cost)) =>
        \E w1, w2 \in ret[1].possible_answers :
            /\ w1 # w2
            /\ ret[1].node =
                   <<TreeNode(Answer(w1), Frac(3, 2),
                       observed_hint(possible_answers[w1 + 1], w2)
                           :> TreeNode(Answer(w2), F(1), NoChildren))>>

\* C9: the result of every call is the one the first applicable check of
\* the fixed order decides: (1) depth = max_depth: None; (2) max_cost < 1:
\* None; (3) one candidate: the leaf naming it; (4) depth = max_depth - 1:
\* None; (5) max_cost < 1.5: None; (6) two candidates: a two-step node of
\* est_cost 1.5; and the guess enumeration runs only in calls to which none
\* of the six applies.
C9_FirstApplicableCheckDecides ==
    /\ ret # <<>> =>
           LET r == ret[1]
               n == Cardinality(r.possible_answers)
           IN  IF r.depth = max_depth THEN r.node = <<>> /\ ~r.searched
               ELSE IF FLt(r.max_cost, F(1)) THEN r.node = <<>> /\ ~r.searched
               ELSE IF n = 1
               THEN /\ ~r.searched
                    /\ \E a \in r.possible_answers :
                           r.node = <<TreeNode(Answer(a), F(1), NoChildren)>>
               ELSE IF r.depth = max_depth - 1 THEN r.node = <<>> /\ ~r.searched
               ELSE IF FLt(r.max_cost, Frac(3, 2)) THEN r.node = <<>> /\ ~r.searched
               ELSE IF n = 2
               THEN /\ ~r.searched
                    /\ r.node # <<>>
                    /\ r.node[1].est_cost = Frac(3, 2)
                    /\ Height(r.node[1]) = 2
                    /\ Cardinality(DOMAIN r.node[1].next) = 1
               ELSE r.searched
    /\ \A i \in 1..Len(stack) :
           /\ stack[i].depth < max_depth - 1
           /\ FLe(Frac(3, 2), stack[i].max_cost)
           /\ Cardinality(stack[i].possible_answers) >= 3

\* the fourth check decides a child call on two candidates that the
\* two-candidate shortcut would otherwise have answered
C9_Witness ==
    /\ ret # <<>>
    /\ ret[1].depth >= 1
    /\ ret[1].depth = max_depth - 1
    /\ Cardinality(ret[1].possible_answers) = 2
    /\ FLe(Frac(3, 2), ret[1].max_cost)
    /\ ret[1].node = <<>>

\* C10: of two root calls on the same matrix, candidates and max_depth that
\* both return a node, the one with the smaller (or equal) max_cost does not
\* return the greater est_cost.  SolveAgain only ever retries with a
\* max_cost that is not smaller than the earlier one.
C10_RelaxingNeverLowersEstCost ==
    (/\ pc = "done"
     /\ prev # <<>>
     /\ prev[1].est_cost # <<>>
     /\ ret[1].node # <<>>) =>
        FLe(prev[1].est_cost[1], ret[1].node[1].est_cost)

\* both calls return a node from the guess enumeration and the second
\* max_cost is larger
C10_Witness ==
    /\ pc = "done"
    /\ prev # <<>>
    /\ prev[1].relaxed
    /\ prev[1].est_cost # <<>>
    /\ ret[1].node # <<>>
    /\ ret[1].searched
    /\ DOMAIN ret[1].node[1].next # {}

\* C11: two runs of the solver on identical inputs return identical
\* results: both None, or trees with the same guess at every node, the same
\* child hint keys and the same est_cost, whatever the iteration order of
\* the hash containers and the order of equal keys after the unstable sorts.
C11_SameInputSameResult ==
    (pc = "done" /\ prev # <<>>) => ret[1].node = prev[1].node

\* the guess and the hint that the last HintStep handed to clue_possible
last_guess == allowed_guesses[guess_ind + 1]
last_hint == all_possible[hint_ind]

\* some word of [0, A)^W answers the guess g with the hint h
reachable_hint(g, h) == \E w \in Word : from_guess_and_answer(g, w) = h

\* C12: clue_possible(g, h) is false if and only if no word w of [0, A)^W
\* has from_guess_and_answer(g, w) = h.
C12_ClueImpossibleIffNoWord ==
    (pc = "hints" /\ hint_ind >= 1) =>
        (~clue_possible(last_guess, last_hint) <=> ~reachable_hint(last_guess, last_hint))

\* C12 as amended: whenever clue_possible(g, h) is false, no word w of
\* [0, A)^W has from_guess_and_answer(g, w) = h.
C12_ClueImpossibleOnlyIfNoWord ==
    (pc = "hints" /\ hint_ind >= 1 /\ ~clue_possible(last_guess, last_hint)) =>
        ~reachable_hint(last_guess, last_hint)

\* a hint that clue_possible refuses: a character of the guess is Nowhere
\* at one index and Elsewhere at a later one
C12_Witness ==
    /\ pc = "hints"
    /\ hint_ind >= 1
    /\ ~clue_possible(last_guess, last_hint)
    /\ \E i, j \in 1..WORD_SIZE :
           /\ i < j
           /\ last_guess[i] = last_guess[j]
           /\ last_hint[i] = Nowhere
           /\ last_hint[j] = Elsewhere

\* C13: the hint of a guess against an answer never has Elsewhere at an
\* index whose character is Nowhere at an earlier index, that is,
\* clue_possible accepts every hint that from_guess_and_answer produces.
C13_DerivedHintIsPossible ==
    pc \in {"hinted", "dumb", "compiled", "compared"} =>
        /\ ~ \E i, j \in 1..WORD_SIZE :
                 /\ i < j
                 /\ guess[i] = guess[j]
                 /\ word_hint[i] = Nowhere
                 /\ word_hint[j] = Elsewhere
        /\ clue_possible(guess, word_hint)

\* a derived hint in which a character of the guess is shown Elsewhere at
\* its first missed index and Nowhere at a later one
C13_Witness ==
    /\ pc = "hinted"
    /\ clue_possible(guess, word_hint)
    /\ \E i, j \in 1..WORD_SIZE :
           /\ i < j
           /\ guess[i] = guess[j]
           /\ word_hint[i] = Elsewhere
           /\ word_hint[j] = Nowhere

\* the candidates of `answers` give at least two distinct hints for guess g
yields_two_hints(g, answers) ==
    Cardinality({all_hints[g + 1][a + 1] : a \in answers}) >= 2

\* C14: the guess of every node that the guess enumeration produces for a
\* candidate set yields at least two distinct hints over that set: the
\* node a call returns from the enumeration, the guess a running call
\* evaluates and its best guess so far; guess_order holds no guess for
\* which every candidate produces the same hint.
C14_UselessGuessNeverSelected ==
    /\ (ret # <<>> /\ ret[1].searched /\ ret[1].node # <<>>) =>
           /\ ret[1].node[1].should_guess.from = "Guess"
           /\ yields_two_hints(ret[1].node[1].should_guess.ind, ret[1].possible_answers)
    /\ \A i \in 1..Len(stack) :
           LET f == stack[i]
           IN  /\ \A g \in f.guess_order : yields_two_hints(g, f.possible_answers)
               /\ f.guess # <<>> =>
                      yields_two_hints(f.guess[1].should_guess.ind, f.possible_answers)
               /\ f.best # <<>> =>
                      yields_two_hints(f.best[1].should_guess.ind, f.possible_answers)

\* the enumeration returns a node for a candidate set that some guess of
\* the guess list does not split
C14_Witness ==
    /\ ret # <<>>
    /\ ret[1].searched
    /\ ret[1].node # <<>>
    /\ \E g \in 0..(Len(all_hints) - 1) : ~yields_two_hints(g, ret[1].possible_answers)

\* C15: a call with Some(printer) returns what the call with None returns
\* and has no failure that the run without a printer does not have.  A run
\* without a printer never fails (the solver has no other panic on inputs
\* built by main), so the run with a printer must not fail either.
C15_PrinterDoesNotAffectSearch ==
    /\ printer = None => pc # "panicked"
    /\ printer = "Some" => pc # "panicked"

\* The least total number of guesses, summed over the candidates, of a
\* decision tree that starts with the guess g and identifies every
\* candidate of `answers` with at most k guesses on every path; Unreachable
\* or more if there is none.
LeastTotalWith(g, answers, k) ==
    LET w == allowed_guesses[g + 1]
        hs == {observed_hint(w, a) : a \in answers} \ {all_correct_hint_id}
        RECURSIVE below(_)
        below(rest) ==
            IF rest = {} THEN 0
            ELSE LET h == CHOOSE x \in rest : TRUE
                 IN  LeastTotal(hint_class(w, answers, h), k - 1) + below(rest \ {h})
    IN  IF k = 0 THEN Unreachable
        ELSE Min(Unreachable, Cardinality(answers) + below(hs))

\* the guesses whose word belongs to the answer list
answer_list_guesses ==
    {g \in 0..(Len(allowed_guesses) - 1) : allowed_guesses[g + 1] \in Range(possible_answers)}

\* C16: at a node with three or more candidates, when a guess whose word
\* belongs to the answer list reaches exactly the est_cost of the returned
\* node, the returned node names an answer-list guess.
C16_AnswerListGuessWinsTies ==
    (/\ ret # <<>>
     /\ ret[1].searched
     /\ ret[1].node # <<>>
     /\ \E g \in answer_list_guesses :
            Frac(LeastTotalWith(g, ret[1].possible_answers, max_depth - ret[1].depth),
                 Cardinality(ret[1].possible_answers)) = ret[1].node[1].est_cost) =>
        should_guess_word(ret[1].node[1]) \in Range(possible_answers)

----------------------------------------------------------------------------
(* Claims about the word table.                                            *)

\* the truth of a query on one word
RECURSIVE Holds(_, _)
Holds(q, w) ==
    IF q.type = "Match" THEN w[q.ind + 1] = q.chr
    ELSE IF q.type = "CountExact" THEN count_chr(w, q.chr) = q.count
    ELSE IF q.type = "CountAtLeast" THEN count_chr(w, q.chr) >= q.count
    ELSE IF q.type = "Not" THEN ~Holds(q.q, w)
    ELSE IF q.type = "And" THEN \A i \in 1..Len(q.qs) : Holds(q.qs[i], w)
    ELSE \E i \in 1..Len(q.qs) : Holds(q.qs[i], w)

\* the rows of the word list ws on which the query q is true
HoldsOn(q, ws) == [i \in 1..Len(ws) |-> Holds(q, ws[i])]

\* C17: bit i of eval_query(q) is the truth of q on words[i], for Match,
\* CountExact, CountAtLeast, Not, And and Or (And([]) all true, Or([]) all
\* false); so Not(Not(q)) selects the rows of q and CountAtLeast{0} selects
\* every row.
C17_EvalQueryIsTruthOfQuery ==
    pc = "evaluated" =>
        /\ selected.len = Len(words)
        /\ to_bools(selected) = HoldsOn(query, words)
        /\ query.type = "Not" =>
               /\ to_bools(selected) = [i \in 1..Len(words) |-> ~Holds(query.q, words[i])]
               /\ query.q.type = "Not" =>
                      to_bools(selected) = to_bools(eval_query(table, query.q.q))
        /\ (query.type = "CountAtLeast" /\ query.count = 0) =>
               to_bools(selected) = [i \in 1..Len(words) |-> TRUE]
        /\ (query.type = "And" /\ query.qs = <<>>) =>
               to_bools(selected) = [i \in 1..Len(words) |-> TRUE]
        /\ (query.type = "Or" /\ query.qs = <<>>) =>
               to_bools(selected) = [i \in 1..Len(words) |-> FALSE]

\* an Or of two sub-queries is evaluated on a table where it is true on
\* some rows and false on others
C17_Witness ==
    /\ pc = "evaluated"
    /\ query.type = "Or"
    /\ Len(query.qs) = 2
    /\ \E i, j \in 1..Len(words) :
           to_bools(selected)[i] /\ ~to_bools(selected)[j]

\* the Match column of position ind and the CountExact column of count n
\* in the block of character chr (0-based ind, n, chr)
match_column(t, chr, ind) == t.columns[(WORD_SIZE * 3) * chr + ind + 1]
count_exact_column(t, chr, n) == t.columns[(WORD_SIZE * 3) * chr + WORD_SIZE + n + 1]

\* the table t has 3 * W columns per character, each as long as the word
\* list; in every row exactly one character's Match column is set at each
\* position and exactly one CountExact column is set for each character
OneHot(t) ==
    /\ Len(t.columns) = 3 * WORD_SIZE * ALPHABET_SIZE
    /\ \A k \in 1..Len(t.columns) : t.columns[k].len = Len(t.words)
    /\ \A row \in 0..(Len(t.words) - 1) :
           /\ \A ind \in 0..(WORD_SIZE - 1) :
                  Cardinality({chr \in Chars : get(match_column(t, chr, ind), row)}) = 1
           /\ \A chr \in Chars :
                  Cardinality({n \in 0..WORD_SIZE : get(count_exact_column(t, chr, n), row)}) = 1

\* C18: in every table that build or filter produces, each row has exactly
\* one of the A Match columns set at each position and exactly one of the
\* W + 1 CountExact columns set for each character, and the table holds
\* 3 * W columns per character, each of length |words|.
C18_ColumnsAreOneHot ==
    /\ pc = "built" => OneHot(table)
    /\ pc = "filtered" => OneHot(filtered)

\* filter has kept some rows of a built table and dropped others
C18_Witness ==
    /\ pc = "filtered"
    /\ Len(filtered.words) >= 2
    /\ Len(filtered.words) < Len(words)
    /\ OneHot(filtered)

\* the stored count-at-least column of threshold n (1 <= n < W) in the
\* block of character chr: offset 2W + n of the block
count_at_least_column(t, chr, n) == t.columns[(WORD_SIZE * 3) * chr + WORD_SIZE * 2 + n + 1]

\* the rows in which one of the CountExact columns n .. W of chr is set
exact_from(t, chr, n) ==
    [i \in 1..Len(t.words) |->
        \E k \in n..WORD_SIZE : get(count_exact_column(t, chr, k), i - 1)]

\* C19: for every character c and threshold n with 1 <= n <= W,
\* eval_query(CountAtLeast{n, c}) selects the rows of the OR of
\* eval_query(CountExact{k, c}) for k = n .. W; CountAtLeast{W} equals
\* CountExact{W}, and the column stored at offset 2W + n of the block of c
\* is the column of threshold n.
C19_AtLeastIsOrOfExact ==
    /\ (/\ pc = "evaluated"
        /\ query.type = "CountAtLeast"
        /\ query.count >= 1) =>
           /\ to_bools(selected) = exact_from(table, query.chr, query.count)
           /\ to_bools(selected) =
                  to_bools(eval_query(table,
                      Or([k \in 1..(WORD_SIZE - query.count + 1) |->
                             CountExact(query.count + k - 1, query.chr)])))
           /\ query.count = WORD_SIZE =>
                  selected = eval_query(table, CountExact(WORD_SIZE, query.chr))
    /\ pc = "built" =>
           \A chr \in Chars : \A n \in 1..(WORD_SIZE - 1) :
               /\ to_bools(count_at_least_column(table, chr, n)) =
                      [i \in 1..Len(words) |-> count_chr(words[i], chr) >= n]
               /\ to_bools(count_at_least_column(table, chr, n)) = exact_from(table, chr, n)

\* a stored count-at-least column is read for a threshold that one row
\* reaches exactly and another exceeds
C19_Witness ==
    /\ pc = "evaluated"
    /\ query.type = "CountAtLeast"
    /\ query.count >= 1
    /\ query.count < WORD_SIZE
    /\ \E i, j \in 1..Len(words) :
           /\ count_chr(words[i], query.chr) = query.count
           /\ count_chr(words[j], query.chr) > query.count
           /\ to_bools(selected)[i]
           /\ to_bools(selected)[j]

\* C20: table subsetting commutes with querying: T.filter(m).words() is
\* T.filter_words(m), the surviving words in their original order;
\* T.filter(m).eval_query(q) has the bits of
\* T.eval_query(q).filter(m.true_inds()); and T.filter(m) answers every
\* query as SearchableWords::build(T.filter_words(m)) does (it holds the
\* same columns).
C20_FilterCommutesWithQuery ==
    /\ pc = "filtered" =>
           /\ filtered.words = filter_words(table, filter_mask)
           /\ filtered.words =
                  [j \in 1..Len(true_inds(filter_mask)) |->
                      words[true_inds(filter_mask)[j] + 1]]
           /\ \A i, j \in 1..Len(true_inds(filter_mask)) :
                  i < j => true_inds(filter_mask)[i] < true_inds(filter_mask)[j]
           /\ filtered.columns = build(filter_words(table, filter_mask)).columns
    /\ pc = "refiltered" =>
           /\ to_bools(filtered_selected) =
                  to_bools(Column_filter(selected, true_inds(filter_mask)))
           /\ filtered_selected = eval_query(build(filtered.words), query)
           /\ to_bools(filtered_selected) = HoldsOn(query, filtered.words)

\* a negated query is evaluated against a table that a mask with gaps has
\* cut down to two rows or more, on which the query is not constant
C20_Witness ==
    /\ pc = "refiltered"
    /\ query.type = "Not"
    /\ Len(filtered.words) >= 2
    /\ Len(filtered.words) < Len(words)
    /\ ~get(filter_mask, 0)
    /\ \E i, j \in 1..Len(filtered.words) :
           to_bools(filtered_selected)[i] /\ ~to_bools(filtered_selected)[j]

----------------------------------------------------------------------------
(* Claims about the Column.                                                *)

\* the name of the last method called on the Column under test
last_call == IF last_op = <<>> THEN None ELSE last_op[1].name

\* ceil(n / CHUNK_BITS)
chunks_needed(n) == (n \div CHUNK_BITS) + (IF n % CHUNK_BITS = 0 THEN 0 ELSE 1)

\* C21: unpacking a Column packed from a bool slice gives the slice back;
\* its len is the length of the slice and it holds ceil(len / 64) storage
\* words - for the empty slice, slices shorter than one word, slices that
\* fill their words and slices with a partial last word.
C21_PackUnpackRoundTrip ==
    last_call = "from_bools" =>
        /\ to_bools(column) = source_bools
        /\ column.len = Len(source_bools)
        /\ Len(column.col) = chunks_needed(Len(source_bools))

\* a slice of one full word and one more entry, which is true, was packed
C21_Witness ==
    /\ last_call = "from_bools"
    /\ Len(source_bools) = CHUNK_BITS + 1
    /\ source_bools[CHUNK_BITS + 1]
    /\ ~source_bools[1]
    /\ Len(column.col) = 2

\* the indices (0-based) at which to_bools holds true
true_entries(c) ==
    LET bools == to_bools(c)
    IN  {i \in 0..(c.len - 1) : bools[i + 1]}

\* whether a bit past len is set in the last storage word
junk_set(c) ==
    /\ c.len % CHUNK_BITS # 0
    /\ \E b \in c.col[Len(c.col)] : b >= c.len % CHUNK_BITS

\* C22: for every Column that the constructors, set, filter, !, &= and |=
\* produce, count_true is the number of true entries of to_bools (bits past
\* len are not counted), count_false is len - count_true, and true_inds
\* lists exactly the true indices in ascending order.
C22_CountsIgnoreBitsPastLen ==
    pc \in {"made", "column", "panicked"} =>
        \A c \in {column, other} :
            LET entries == true_entries(c)
                inds == true_inds(c)
            IN  /\ count_true(c) = Cardinality(entries)
                /\ count_false(c) = c.len - Cardinality(entries)
                /\ Range(inds) = entries
                /\ \A i \in 1..(Len(inds) - 1) : inds[i] < inds[i + 1]

\* a Column with a partial last word holds set bits past len and false
\* entries below it
C22_Witness ==
    /\ pc = "column"
    /\ junk_set(column)
    /\ column.len > CHUNK_BITS
    /\ count_true(column) < column.len
    /\ count_true(column) > 0

\* what count_true, true_inds, get and filter show of a Column
observations(c) ==
    [count_true |-> count_true(c),
     true_inds |-> true_inds(c),
     get |-> [i \in 0..(c.len - 1) |-> get(c, i)],
     filter |-> Column_filter(c, [i \in 1..c.len |-> c.len - i])]

\* two Columns hold the same entries
same_entries(c, d) == c.len = d.len /\ to_bools(c) = to_bools(d)

\* C23: two Columns of equal len and equal to_bools, however they were
\* obtained, agree on count_true, true_inds, get, filter, and on the derived
\* == and <: each equals the other and neither is less than the other.
C23_PaddingNeverObserved ==
    (pc \in {"made", "column", "panicked"} /\ same_entries(column, other)) =>
        /\ observations(column) = observations(other)
        /\ Column_eq(column, other)
        /\ ~Column_lt(column, other)
        /\ ~Column_lt(other, column)

\* the observations that do not compare the storage words
C23_MethodsIgnorePadding ==
    (pc \in {"made", "column", "panicked"} /\ same_entries(column, other)) =>
        observations(column) = observations(other)

\* the argument of the last call: the index of get / set, the len of the
\* right-hand side of &= / |=
last_arg == last_op[1].ind

\* C24: get(i) and set(i, b) panic for every i >= len, also when i still
\* falls inside the last storage word; &= and |= panic whenever the two
\* lengths differ, also when both Columns hold the same number of storage
\* words; the Column the call was made on is left as it was.
C24_ContractViolationsPanic ==
    /\ (last_call \in {"get", "set"} /\ last_arg >= column_before.len) =>
           (outcome = "panicked" /\ column = column_before)
    /\ (last_call \in {"bitand_assign", "bitor_assign"} /\ last_arg # column_before.len) =>
           (outcome = "panicked" /\ column = column_before)

\* set was called with an index past len that lies inside the last storage
\* word, on a Column whose bit at that index is clear
C24_Witness ==
    /\ last_call = "set"
    /\ last_arg >= column_before.len
    /\ last_arg < CHUNK_BITS * Len(column_before.col)
    /\ (last_arg % CHUNK_BITS) \notin column_before.col[Len(column_before.col)]
    /\ outcome = "panicked"
    /\ pc = "panicked"

\* |= was called with a right-hand side of another len that holds the same
\* number of storage words
C24_SameStorageOtherLen ==
    /\ last_call = "bitor_assign"
    /\ last_arg # column.len
    /\ Len(other.col) = Len(column.col)
    /\ Len(column.col) > 0
    /\ outcome = "panicked"

----------------------------------------------------------------------------
(* Claims about the word parser.                                           *)

\* an ASCII letter
is_alphabetic(byte) == byte \in 65..90 \/ byte \in 97..122

\* the position in the alphabet of a letter, upper or lower case
letter_index(byte) == IF byte \in 97..122 THEN byte - 97 ELSE byte - 65

\* a line that is not a word over the alphabet: wrong length, a byte that
\* is no letter, or a letter past the alphabet
malformed(bytes) ==
    \/ Len(bytes) # WORD_SIZE
    \/ \E i \in 1..Len(bytes) :
           \/ ~is_alphabetic(bytes[i])
           \/ letter_index(bytes[i]) \notin Chars

\* the other spelling of a line: every letter in the other case
swap_case(bytes) ==
    [i \in 1..Len(bytes) |->
        IF bytes[i] \in 65..90 THEN bytes[i] + 32
        ELSE IF bytes[i] \in 97..122 THEN bytes[i] - 32
        ELSE bytes[i]]

\* C25: from_str fails on every malformed line - a length other than W, a
\* byte that is no letter, a letter whose index is not in [0, A) - and
\* every character value of a word it returns lies in [0, A); lowercase and
\* uppercase spellings parse to the same word.
C25_MalformedLinesFailAtParse ==
    pc \in {"parsed", "panicked"} =>
        /\ malformed(raw) => parsed = <<>>
        /\ parsed # <<>> => \A i \in 1..WORD_SIZE : parsed[1][i] \in Chars
        /\ parsed = from_str(swap_case(raw), overflow_checks)

\* what holds of from_str whatever the alphabet size: wrong lengths and
\* bytes that are no letters fail, the values are letter indices below 26,
\* and the case of the letters does not matter
C25_LettersParse ==
    pc \in {"parsed", "panicked"} =>
        /\ (Len(raw) # WORD_SIZE \/ \E i \in 1..Len(raw) : ~is_alphabetic(raw[i])) <=>
               parsed = <<>>
        /\ parsed # <<>> => \A i \in 1..WORD_SIZE : parsed[1][i] = letter_index(raw[i])
        /\ parsed = from_str(swap_case(raw), overflow_checks)

----------------------------------------------------------------------------
(* Claims about compute_node_aggressive.                                   *)

\* the number of guesses on the longest path from a node to a leaf
RECURSIVE guesses_to_leaf(_)
guesses_to_leaf(node) ==
    LET below == {guesses_to_leaf(node.next[h]) : h \in DOMAIN node.next}
    IN  1 + (IF below = {} THEN 0 ELSE CHOOSE n \in below : \A m \in below : m <= n)

\* C26: a tree that compute_node_aggressive returns for a call at depth d
\* with max_depth m has at most m - d guesses on every path from the root
\* to a leaf; at depth m - 1 with two or more possible answers the call
\* returns None.
C26_TreeFitsRemainingDepth ==
    pc = "computed" =>
        /\ node_result # <<>> =>
               guesses_to_leaf(node_result[1].node) <= node_max_depth - node_depth
        /\ (node_depth = node_max_depth - 1 /\ Len(words) >= 2) => node_result = <<>>

\* the same with the two-answer shortcut left aside
C26_FitsButForTwoAnswers ==
    pc = "computed" =>
        /\ node_result # <<>> =>
               guesses_to_leaf(node_result[1].node) <= node_max_depth - node_depth + 1
        /\ (node_depth = node_max_depth - 1 /\ Len(words) >= 3) => node_result = <<>>

----------------------------------------------------------------------------
(* Claims about the compiler of the crate root.                            *)

\* a character of the guess with a Nowhere at one index and a Correct or
\* an Elsewhere at another
nowhere_and_present(g, hints) ==
    \E i, j \in 1..WORD_SIZE :
        g[i] = g[j] /\ hints[i] = Nowhere /\ hints[j] # Nowhere

\* C27: the query that lib.rs clue_to_query compiles from a guess and the
\* hints of a word w of the table selects w and no word whose hints for the
\* guess differ from those of w - also for a guess that repeats a character
\* which gets a Nowhere and a Correct or an Elsewhere.
C27_LibQueryIsSound ==
    pc = "lib_compared" =>
        /\ answer \in Range(smart)
        /\ \A i \in 1..Len(words) :
               guess_to_hints(words[i], guess) # guess_to_hints(answer, guess) =>
                   words[i] \notin Range(smart)

\* the same for the guesses none of whose characters gets a Nowhere and a
\* Correct or an Elsewhere, and the exclusion of other hints for every guess
C27_SoundWithoutSplitChars ==
    pc = "lib_compared" =>
        /\ ~nowhere_and_present(guess, word_hint) => answer \in Range(smart)
        /\ nowhere_and_present(guess, word_hint) => smart = <<>>
        /\ \A i \in 1..Len(words) :
               guess_to_hints(words[i], guess) # guess_to_hints(answer, guess) =>
                   words[i] \notin Range(smart)


----------------------------------------------------------------------------
(* Claims about the pruning of compute_decision_tree_aggressive.           *)

\* the least expected number of guesses of a decision tree that identifies
\* every candidate of the returned call r within max_depth - r.depth guesses
least_est_cost(r) ==
    Frac(LeastTotal(r.possible_answers, max_depth - r.depth),
         Cardinality(r.possible_answers))

\* C28: every node a call returns has the least est_cost of all decision
\* trees that identify every candidate of the call within max_depth - depth
\* guesses: the lower-bound test, the budget of the child calls and the
\* cut-off on the running cost never discard a strictly cheaper strategy.
C28_PruningIsSafe ==
    (ret # <<>> /\ ret[1].node # <<>>) =>
        LET least == LeastTotal(ret[1].possible_answers, max_depth - ret[1].depth)
        IN  /\ least < Unreachable
            /\ ret[1].node[1].est_cost =
                   Frac(least, Cardinality(ret[1].possible_answers))

\* the guess enumeration returns the cheapest tree in a call where another
\* guess that splits the candidates starts a dearer tree within the depth
\* limit
C28_Witness ==
    /\ ret # <<>>
    /\ ret[1].node # <<>>
    /\ ret[1].searched
    /\ ret[1].node[1].est_cost = least_est_cost(ret[1])
    /\ \E g \in 0..(Len(allowed_guesses) - 1) :
           LET with_g == LeastTotalWith(g, ret[1].possible_answers,
                                        max_depth - ret[1].depth)
           IN  /\ ~useless(g, ret[1].possible_answers)
               /\ with_g < Unreachable
               /\ with_g > LeastTotal(ret[1].possible_answers,
                                      max_depth - ret[1].depth)

----------------------------------------------------------------------------
(* Claims about the cost limits of compute_decision_tree_aggressive.       *)

\* the frames that are on the stack before and after a step: a step pushes
\* one frame, pops one or leaves the depth of the stack alone
kept_frames == 1..Min(Len(stack), Len(stack'))

\* in the frame i, guess_max_est_cost does not grow, and a guess that
\* replaces best is strictly cheaper than it and than max_cost
best_improves(i) ==
    /\ FLe(stack'[i].guess_max_est_cost, stack[i].guess_max_est_cost)
    /\ FLe(stack'[i].guess_max_est_cost, stack[i].max_cost)
    /\ stack'[i].best # stack[i].best =>
           /\ stack'[i].best # <<>>
           /\ stack'[i].guess_max_est_cost = stack'[i].best[1].est_cost
           /\ FLt(stack'[i].best[1].est_cost, stack[i].guess_max_est_cost)
           /\ stack[i].best # <<>> =>
                  FLt(stack'[i].best[1].est_cost, stack[i].best[1].est_cost)

\* C29: the est_cost of every returned node is at most the max_cost of its
\* call, and strictly below it when the node comes from the guess
\* enumeration; every guess that becomes the new best is strictly cheaper
\* than the previous best, so guess_max_est_cost never grows during the
\* loop.
C29_CostStaysBelowLimit ==
    /\ []((ret # <<>> /\ ret[1].node # <<>>) =>
            /\ FLe(ret[1].node[1].est_cost, ret[1].max_cost)
            /\ ret[1].searched =>
                   /\ Cardinality(ret[1].possible_answers) >= 3
                   /\ FLt(ret[1].node[1].est_cost, ret[1].max_cost))
    /\ [][\A i \in kept_frames : best_improves(i)]_vars

\* a guess has been evaluated to the end that is strictly cheaper than the
\* best guess so far: the next step makes it the new best
C29_Witness ==
    /\ pc = "solving"
    /\ stack # <<>>
    /\ LET f == stack[Len(stack)]
       IN  /\ f.guess # <<>>
           /\ f.hints_answers = {}
           /\ f.best # <<>>
           /\ FLt(f.guess[1].est_cost, f.best[1].est_cost)
           /\ FLt(f.best[1].est_cost, f.max_cost)

----------------------------------------------------------------------------
(* Claims about the recursion of compute_decision_tree_aggressive.         *)

\* the call of candidates `answers` at depth `depth` is a recursive call of
\* the frame f
called_from(answers, depth, f) ==
    /\ answers # {}
    /\ answers \subseteq f.possible_answers
    /\ answers # f.possible_answers
    /\ depth = f.depth + 1
    /\ depth < max_depth

\* the most calls that can be nested below the root call
recursion_bound == Min(max_depth, Len(possible_answers))

\* C30: the solver terminates: every recursive call receives a non-empty
\* strict subset of its parent's candidates and the depth of its parent
\* plus one, which is strictly below max_depth, so no call is nested deeper
\* than min(max_depth, |candidates|) below the root call, and the run ends.
C30_SolverTerminates ==
    /\ [](/\ \A i \in 2..Len(stack) :
                called_from(stack[i].possible_answers, stack[i].depth, stack[i - 1])
          /\ \A i \in 1..Len(stack) :
                /\ stack[i].depth = i - 1
                /\ stack[i].depth <= recursion_bound
          /\ (ret # <<>> /\ stack # <<>>) =>
                /\ called_from(ret[1].possible_answers, ret[1].depth,
                               stack[Len(stack)])
                /\ ret[1].depth <= recursion_bound)
    /\ <>ended

\* a recursive call made by a recursive call has returned to it
C30_Witness ==
    /\ Len(stack) >= 2
    /\ ret # <<>>
    /\ ret[1].depth = 2
    /\ called_from(ret[1].possible_answers, ret[1].depth, stack[Len(stack)])
    /\ called_from(stack[2].possible_answers, stack[2].depth, stack[1])

====
